---- MODULE Spec2Model ----
(***************************************************************************)
(* go-gather: URI classification (common.go), git locator processing and   *)
(* GitGatherer.Gather (gather/git/git.go), the dispatcher of package       *)
(* gather, the concurrent directory copy of gather/file/file.go, the       *)
(* pinned locator of git metadata and untar of package expander.  The      *)
(* specifications of the module: Spec (one locator classified and          *)
(* processed), GatherSpec (concurrent calls of Gather), CopySpec (one call *)
(* of copyDirectory, its goroutines named), PoolSpec (the same call on a   *)
(* large directory, its goroutines counted), CloneSpec (one call of        *)
(* GitGatherer.Gather), PinSpec (one call of GetPinnedURL), UntarSpec (one *)
(* call of untar) and ErrSpec (the error-returning functions side by       *)
(* side).  Go strings are TLA+ strings; s[i:j] is SubSeq.                  *)
(* The locators explored are the ones of Locators: ASCII, free of control  *)
(* bytes, blanks, '+', ';', '[' and of '%' escapes other than the ones     *)
(* url.URL.String and url.Values.Encode write.  An operator binds what it  *)
(* computes with Strict, so that each value is computed once.              *)
(***************************************************************************)
EXTENDS Integers, Sequences, FiniteSets, TLC

\* F(v) with v evaluated once, as Go evaluates an argument before the call
Strict(F(_), v) == CHOOSE r \in {F(x) : x \in {v}} : TRUE

(***************************************************************************)
(* package strings                                                         *)
(***************************************************************************)
\* s[m-1:n] cut to the bytes s has, so that a pattern read past the end of
\* s meets no byte
Slice(s, m, n) ==
    SubSeq(s, IF m < 1 THEN 1 ELSE m, IF n > Len(s) THEN Len(s) ELSE n)

\* s[i-1], for an index within s
Char(s, i) == SubSeq(s, i, i)

\* s[n:]
Drop(s, n) == SubSeq(s, n + 1, Len(s))

\* s[:n]
Take(s, n) == SubSeq(s, 1, n)

HasPrefix(s, p) == Len(s) >= Len(p) /\ SubSeq(s, 1, Len(p)) = p

HasSuffix(s, p) == Len(s) >= Len(p) /\ SubSeq(s, Len(s) - Len(p) + 1, Len(s)) = p

RECURSIVE IndexFrom(_, _, _)
IndexFrom(s, sub, i) ==
    IF i + Len(sub) - 1 > Len(s) THEN 0
    ELSE IF SubSeq(s, i, i + Len(sub) - 1) = sub THEN i
    ELSE IndexFrom(s, sub, i + 1)

\* strings.Index, 1-based; 0 stands for Go's -1
Index(s, sub) == IndexFrom(s, sub, 1)

RECURSIVE LastIndexFrom(_, _, _)
LastIndexFrom(s, sub, i) ==
    IF i < 1 THEN 0
    ELSE IF SubSeq(s, i, i + Len(sub) - 1) = sub THEN i
    ELSE LastIndexFrom(s, sub, i - 1)

\* strings.LastIndex, 1-based; 0 stands for Go's -1
LastIndex(s, sub) == LastIndexFrom(s, sub, Len(s) - Len(sub) + 1)

Contains(s, sub) == Index(s, sub) # 0

\* strings.Cut: <<before, after, found>>
Cut(str, sep) ==
    Strict(LAMBDA s : Strict(LAMBDA i :
        IF i = 0 THEN <<s, "", FALSE>>
        ELSE <<Take(s, i - 1), Drop(s, i + Len(sep) - 1), TRUE>>,
        Index(s, sep)), str)

RECURSIVE Split(_, _)
\* strings.Split with a non-empty separator
Split(str, sep) ==
    Strict(LAMBDA c : IF c[3] THEN <<c[1]>> \o Split(c[2], sep) ELSE <<c[1]>>,
           Cut(str, sep))

\* strings.SplitN(s, sep, 2)
SplitN2(str, sep) ==
    Strict(LAMBDA c : IF c[3] THEN <<c[1], c[2]>> ELSE <<c[1]>>, Cut(str, sep))

RECURSIVE Count(_, _)
\* strings.Count with a non-empty separator
Count(str, sep) ==
    Strict(LAMBDA c : IF c[3] THEN 1 + Count(c[2], sep) ELSE 0, Cut(str, sep))

RECURSIVE Join(_, _)
\* strings.Join
Join(parts, sep) ==
    IF Len(parts) = 0 THEN ""
    ELSE IF Len(parts) = 1 THEN parts[1]
    ELSE parts[1] \o sep \o Join(Tail(parts), sep)

RECURSIVE CharsOf(_)
\* the set of bytes of a string
CharsOf(s) == IF Len(s) = 0 THEN {} ELSE {Char(s, 1)} \cup CharsOf(Drop(s, 1))

\* every byte of s belongs to the class cls
AllIn(s, cls) == \A i \in 1..Len(s) : Char(s, i) \in cls

RECURSIVE RunLen(_, _)
\* length of the longest prefix of s made of bytes of cls (a greedy cls*)
RunLen(s, cls) ==
    IF Len(s) = 0 \/ Char(s, 1) \notin cls THEN 0
    ELSE 1 + RunLen(Drop(s, 1), cls)

Upper == "ABCDEFGHIJKLMNOPQRSTUVWXYZ"

Lower == "abcdefghijklmnopqrstuvwxyz"

Digits == CharsOf("0123456789")

Letters == CharsOf(Upper) \cup CharsOf(Lower)

Alnum == Letters \cup Digits

RECURSIVE ToLower(_)
\* strings.ToLower on ASCII
ToLower(str) ==
    Strict(LAMBDA s :
        IF Len(s) = 0 THEN ""
        ELSE Strict(LAMBDA i : IF i = 0 THEN Char(s, 1) ELSE Char(Lower, i),
                    Index(Upper, Char(s, 1)))
             \o ToLower(Drop(s, 1)),
        str)

\* the bytes of the model in ASCII order, for sort.Strings
Ascii == "#%&-./0123456789:=?@" \o Upper \o "\\_" \o Lower \o "~"

RECURSIVE StrLess(_, _)
\* a < b bytewise, as Go compares strings
StrLess(a, b) ==
    IF Len(b) = 0 THEN FALSE
    ELSE IF Len(a) = 0 THEN TRUE
    ELSE IF Char(a, 1) = Char(b, 1) THEN StrLess(Drop(a, 1), Drop(b, 1))
    ELSE Index(Ascii, Char(a, 1)) < Index(Ascii, Char(b, 1))

(***************************************************************************)
(* package net/url                                                         *)
(***************************************************************************)
HexDigits == "0123456789ABCDEF"

Punct == <<"#", "%", "&", "-", ".", "/", ":", "=", "?", "@", "\\", "_", "~">>

PunctCode == <<35, 37, 38, 45, 46, 47, 58, 61, 63, 64, 92, 95, 126>>

\* the ASCII code of a byte of the model
Code(byte) ==
    Strict(LAMBDA c :
        IF c \in Digits THEN 47 + Index("0123456789", c)
        ELSE IF Index(Upper, c) # 0 THEN 64 + Index(Upper, c)
        ELSE IF Index(Lower, c) # 0 THEN 96 + Index(Lower, c)
        ELSE PunctCode[CHOOSE i \in 1..Len(Punct) : Punct[i] = c],
        byte)

\* "%XX" for a byte
PctEncode(c) ==
    Strict(LAMBDA n : "%" \o Char(HexDigits, (n \div 16) + 1) \o Char(HexDigits, (n % 16) + 1),
           Code(c))

HexChars == Digits \cup CharsOf("ABCDEFabcdef")

\* ishex
IsHex(c) == c \in HexChars

\* unhex
HexVal(byte) ==
    Strict(LAMBDA c :
        IF c \in Digits THEN Index("0123456789", c) - 1
        ELSE IF Index("ABCDEF", c) # 0 THEN 9 + Index("ABCDEF", c)
        ELSE 9 + Index("abcdef", c),
        byte)

\* the byte with a given code; bytes outside the model decode to themselves
\* escaped, which no explored locator contains
Decode(h1, h2) ==
    Strict(LAMBDA n : Strict(LAMBDA hit :
        IF hit = {} THEN "%" \o h1 \o h2 ELSE CHOOSE c \in hit : TRUE,
        {c \in CharsOf(Ascii) : Code(c) = n}),
        16 * HexVal(h1) + HexVal(h2))

\* shouldEscape(c, mode), modes "host", "path", "userpw", "query", "fragment"
ShouldEscape(c, mode) ==
    IF c \in Alnum THEN FALSE
    ELSE IF mode = "host" /\ c \in {"&", "=", ":"} THEN FALSE
    ELSE IF c \in {"-", "_", ".", "~"} THEN FALSE
    ELSE IF c \in {"&", "/", ":", "=", "?", "@"}
         THEN CASE mode = "path" -> c = "?"
                [] mode = "userpw" -> c \in {"@", "/", "?", ":"}
                [] mode = "query" -> TRUE
                [] mode = "fragment" -> FALSE
                [] OTHER -> TRUE
    ELSE TRUE

\* the bytes no mode escapes
Unreserved == Alnum \cup {"-", "_", ".", "~"}

\* the bytes of the model the path mode leaves alone
PathSafe == {c \in CharsOf(Ascii) : ~ShouldEscape(c, "path")}

RECURSIVE EscapeBytes(_, _)
\* escape's loop over the bytes
EscapeBytes(str, mode) ==
    Strict(LAMBDA s :
        IF Len(s) = 0 THEN ""
        ELSE Strict(LAMBDA c : IF ShouldEscape(c, mode) THEN PctEncode(c) ELSE c, Char(s, 1))
             \o EscapeBytes(Drop(s, 1), mode),
        str)

\* escape(s, mode); a string without a byte to escape is returned as it is
Escape(str, mode) ==
    Strict(LAMBDA s :
        IF AllIn(s, IF mode = "path" THEN PathSafe ELSE Unreserved) THEN s
        ELSE EscapeBytes(s, mode),
        str)

RECURSIVE EscapesOk(_, _)
\* unescape's first loop finds every '%' followed by two hex digits
EscapesOk(str, mode) ==
    Strict(LAMBDA s : Strict(LAMBDA i :
        \/ i = 0
        \/ /\ i + 2 <= Len(s)
           /\ IsHex(Char(s, i + 1))
           /\ IsHex(Char(s, i + 2))
           /\ (mode = "host" => SubSeq(s, i, i + 2) = "%25")
           /\ EscapesOk(Drop(s, i + 2), mode),
        Index(s, "%")), str)

\* the bytes of the model a host may hold
HostSafe == {c \in CharsOf(Ascii) : c = "%" \/ ~ShouldEscape(c, "host")}

\* unescape(s, mode) returns a nil error
UnescapeOk(str, mode) ==
    Strict(LAMBDA s : (mode = "host" => AllIn(s, HostSafe)) /\ EscapesOk(s, mode), str)

RECURSIVE Unescape(_)
\* the string unescape returns when it returns no error
Unescape(str) ==
    Strict(LAMBDA s : Strict(LAMBDA i :
        IF i = 0 THEN s
        ELSE Take(s, i - 1) \o Decode(Char(s, i + 1), Char(s, i + 2))
             \o Unescape(Drop(s, i + 2)),
        Index(s, "%")), str)

\* url.URL; HasUser is User != nil and User is User.String()
URL(scheme, opaque, hasUser, user, host, path, rawQuery, forceQuery, omitHost, fragment) ==
    [err |-> "", Scheme |-> scheme, Opaque |-> opaque, HasUser |-> hasUser, User |-> user,
     Host |-> host,
     Path |-> path, RawQuery |-> rawQuery, ForceQuery |-> forceQuery,
     OmitHost |-> omitHost, Fragment |-> fragment]

\* the zero URL with an error
URLError(msg) ==
    [URL("", "", FALSE, "", "", "", "", FALSE, FALSE, "") EXCEPT !.err = msg]

SchemeChars == Alnum \cup {"+", "-", "."}

\* getScheme: <<scheme, rest, err>>
getScheme(rawURL) ==
    Strict(LAMBDA n :
        IF n < Len(rawURL) /\ Char(rawURL, n + 1) = ":"
        THEN IF n = 0 THEN <<"", "", "missing protocol scheme">>
             ELSE IF Char(rawURL, 1) \in Letters
                  THEN <<Take(rawURL, n), Drop(rawURL, n + 1), "">>
             ELSE <<"", rawURL, "">>
        ELSE <<"", rawURL, "">>,
        RunLen(rawURL, SchemeChars))

\* validOptionalPort
validOptionalPort(port) ==
    \/ port = ""
    \/ Char(port, 1) = ":" /\ AllIn(Drop(port, 1), Digits)

\* parseHost returns a nil error (no '[' in the model)
parseHostOk(host) ==
    Strict(LAMBDA i :
        /\ (i # 0 => validOptionalPort(Drop(host, i - 1)))
        /\ UnescapeOk(host, "host"),
        LastIndex(host, ":"))

UserinfoChars == Alnum \cup CharsOf("-._:~&=%@")

\* (*Userinfo).String of the userinfo parseAuthority read
userString(userinfo) ==
    Strict(LAMBDA c :
        Escape(Unescape(c[1]), "userpw")
        \o (IF c[3] THEN ":" \o Escape(Unescape(c[2]), "userpw") ELSE ""),
        Cut(userinfo, ":"))

\* parseAuthority: <<user != nil, user, host, err>>
parseAuthority(authority) ==
    Strict(LAMBDA i :
        LET host == IF i = 0 THEN authority ELSE Drop(authority, i)
            userinfo == IF i = 0 THEN "" ELSE Take(authority, i - 1)
        IN  IF ~parseHostOk(host) THEN <<FALSE, "", "", "invalid host">>
            ELSE IF ~AllIn(userinfo, UserinfoChars)
                 THEN <<FALSE, "", "", "net/url: invalid userinfo">>
            ELSE IF ~UnescapeOk(userinfo, "userpw")
                 THEN <<FALSE, "", "", "invalid URL escape">>
            ELSE <<i # 0, userString(userinfo), Unescape(host), "">>,
        LastIndex(authority, "@"))

\* parse: the query cut off rest, <<rest, RawQuery, ForceQuery>>
cutQuery(rest) ==
    IF HasSuffix(rest, "?") /\ Count(rest, "?") = 1
    THEN <<Take(rest, Len(rest) - 1), "", TRUE>>
    ELSE Strict(LAMBDA c : <<c[1], c[2], FALSE>>, Cut(rest, "?"))

\* parse: the path set, once the authority pa was read
setPath(scheme, pa, rest, q, omit) ==
    IF pa[4] # "" THEN URLError(pa[4])
    ELSE IF ~UnescapeOk(rest, "path") THEN URLError("invalid URL escape")
    ELSE URL(scheme, "", pa[1], pa[2], pa[3], Unescape(rest), q[2], q[3], omit, "")

\* parse from the scheme on; q is what cutQuery returned
parseRest(scheme, q) ==
    IF ~HasPrefix(q[1], "/") /\ scheme # ""
    THEN URL(scheme, q[1], FALSE, "", "", "", q[2], q[3], FALSE, "")
    ELSE IF ~HasPrefix(q[1], "/") /\ Contains(Cut(q[1], "/")[1], ":")
         THEN URLError("first path segment in URL cannot contain colon")
    ELSE IF (scheme # "" \/ ~HasPrefix(q[1], "///")) /\ HasPrefix(q[1], "//")
         THEN Strict(LAMBDA a : Strict(LAMBDA pa :
                  setPath(scheme, pa, IF a[3] THEN "/" \o a[2] ELSE "", q, FALSE),
                  parseAuthority(a[1])),
                  Cut(Drop(q[1], 2), "/"))
    ELSE setPath(scheme, <<FALSE, "", "", "">>, q[1], q,
                 scheme # "" /\ HasPrefix(q[1], "/"))

\* parse(rawURL, viaRequest = false)
parse(rawURL) ==
    Strict(LAMBDA gs :
        IF gs[3] # "" THEN URLError(gs[3])
        ELSE Strict(LAMBDA scheme : Strict(LAMBDA q : parseRest(scheme, q), cutQuery(gs[2])),
                    ToLower(gs[1])),
        getScheme(rawURL))

\* Parse once parse has read the part before '#'
setFragment(u, frag) ==
    IF u.err # "" THEN u
    ELSE IF frag = "" THEN u
    ELSE IF ~UnescapeOk(frag, "fragment") THEN URLError("invalid URL escape")
    ELSE [u EXCEPT !.Fragment = Unescape(frag)]

\* url.Parse
urlParse(rawURL) ==
    Strict(LAMBDA c : Strict(LAMBDA u : setFragment(u, c[2]), Strict(parse, c[1])),
           Cut(rawURL, "#"))

\* (*URL).String
urlString(url) == Strict(LAMBDA u : Strict(LAMBDA path :
    LET head == IF u.Scheme # "" THEN u.Scheme \o ":" ELSE ""
        auth == IF u.Scheme # "" \/ u.Host # "" \/ u.HasUser
                THEN IF u.OmitHost /\ u.Host = "" /\ ~u.HasUser THEN ""
                     ELSE (IF u.Host # "" \/ u.Path # "" \/ u.HasUser THEN "//" ELSE "")
                          \o (IF u.HasUser THEN u.User \o "@" ELSE "")
                          \o u.Host
                ELSE ""
        sep == IF path # "" /\ Char(path, 1) # "/" /\ u.Host # "" THEN "/" ELSE ""
        dot == IF head \o auth \o sep = "" /\ Contains(Cut(path, "/")[1], ":") THEN "./" ELSE ""
        body == IF u.Opaque # "" THEN head \o u.Opaque
                ELSE head \o auth \o sep \o dot \o path
    IN  body
        \o (IF u.ForceQuery \/ u.RawQuery # "" THEN "?" \o u.RawQuery ELSE "")
        \o (IF u.Fragment # "" THEN "#" \o Escape(u.Fragment, "fragment") ELSE ""),
    Escape(u.Path, "path")), url)

RECURSIVE parseQuery(_)
\* url.ParseQuery as (*URL).Query uses it: the pairs <<key, value>> in the
\* order met, pairs with a bad escape skipped (no ';' in the model)
parseQuery(query) ==
    IF query = "" THEN <<>>
    ELSE Strict(LAMBDA c : Strict(LAMBDA kv :
             (IF c[1] = "" \/ ~UnescapeOk(kv[1], "query") \/ ~UnescapeOk(kv[2], "query")
              THEN <<>>
              ELSE << <<Unescape(kv[1]), Unescape(kv[2])>> >>)
             \o parseQuery(c[2]),
             Cut(c[1], "=")), Cut(query, "&"))

\* url.Values.Get
QGet(q, key) ==
    IF \E i \in 1..Len(q) : q[i][1] = key
    THEN q[CHOOSE i \in 1..Len(q) : q[i][1] = key /\ \A j \in 1..(i - 1) : q[j][1] # key][2]
    ELSE ""

\* url.Values.Del
QDel(q, key) == SelectSeq(q, LAMBDA kv : kv[1] # key)

RECURSIVE SortKeys(_)
\* sort.Strings over a set of keys
SortKeys(ks) ==
    IF ks = {} THEN <<>>
    ELSE Strict(LAMBDA m : <<m>> \o SortKeys(ks \ {m}),
                CHOOSE k \in ks : \A o \in ks \ {k} : StrLess(k, o))

RECURSIVE EncodePairs(_)
EncodePairs(q) ==
    IF Len(q) = 0 THEN <<>>
    ELSE <<Escape(q[1][1], "query") \o "=" \o Escape(q[1][2], "query")>> \o EncodePairs(Tail(q))

RECURSIVE EncodeKeys(_, _)
EncodeKeys(q, keys) ==
    IF Len(keys) = 0 THEN <<>>
    ELSE EncodePairs(SelectSeq(q, LAMBDA kv : kv[1] = keys[1])) \o EncodeKeys(q, Tail(keys))

\* url.Values.Encode
QEncode(v) ==
    Strict(LAMBDA q : Join(EncodeKeys(q, SortKeys({q[i][1] : i \in 1..Len(q)})), "&"), v)

(***************************************************************************)
(* package path/filepath (Unix)                                            *)
(***************************************************************************)
RECURSIVE CleanParts(_, _, _)
\* the components Clean keeps: "" and "." dropped, ".." backs up
CleanParts(parts, out, rooted) ==
    IF Len(parts) = 0 THEN out
    ELSE LET p == parts[1]
             next == IF p = "" \/ p = "." THEN out
                     ELSE IF p = ".."
                          THEN IF Len(out) > 0 /\ out[Len(out)] # ".."
                               THEN SubSeq(out, 1, Len(out) - 1)
                               ELSE IF rooted THEN out ELSE Append(out, "..")
                     ELSE Append(out, p)
         IN  CleanParts(Tail(parts), next, rooted)

\* filepath.Clean
Clean(path) ==
    Strict(LAMBDA p : Strict(LAMBDA body :
        IF HasPrefix(p, "/") THEN "/" \o body
        ELSE IF body = "" THEN "." ELSE body,
        Join(CleanParts(Split(p, "/"), <<>>, HasPrefix(p, "/")), "/")), path)

\* filepath.Join of two elements
FilepathJoin(a, b) ==
    IF a = "" /\ b = "" THEN ""
    ELSE IF a = "" THEN Clean(b)
    ELSE IF b = "" THEN Clean(a)
    ELSE Clean(a \o "/" \o b)

(***************************************************************************)
(* common.go                                                               *)
(***************************************************************************)
GitURI == "GitURI"

HTTPURI == "HTTPURI"

FileURI == "FileURI"

OCIURI == "OCIURI"

Unknown == "Unknown"

\* what getHomeDir (os.UserHomeDir) can return: <<dir, err>>
HomeOutcomes == {<<"/home/u", "">>, <<"/srv/me.git", "">>, <<"", "$HOME is not defined">>}

\* ExpandTilde under a getHomeDir outcome
ExpandTilde(path, home) ==
    IF HasPrefix(path, "~/")
    THEN IF home[2] # "" THEN path ELSE FilepathJoin(home[1], Drop(path, 2))
    ELSE path

\* [\w\.\-]
WordChars == Alnum \cup {"_", ".", "-"}

\* [\w\-]
LabelChars == Alnum \cup {"_", "-"}

\* [\w\.\-]+ over the whole string
IsWord(s) == Len(s) > 0 /\ AllIn(s, WordChars)

\* [\w\.\-]+/[\w\.\-]+ ... with n segments, over the whole string
IsWords(s, n) ==
    Strict(LAMBDA parts : Len(parts) = n /\ \A i \in 1..n : IsWord(parts[i]),
           Split(s, "/"))

\* the mutant: the alternative reads https:// only
gitHTTPShapeHTTPSOnly(s) == HasPrefix(s, "https://") /\ IsWords(Drop(s, 8), 3)

\* the alternative https?://[\w\.\-]+/[\w\.\-]+/[\w\.\-]+(\.git)? of gitURIPattern
gitHTTPShape(s) ==
    \/ HasPrefix(s, "http://") /\ IsWords(Drop(s, 7), 3)
    \/ HasPrefix(s, "https://") /\ IsWords(Drop(s, 8), 3)

\* the alternative git@[\w\.\-]+:[\w\.\-]+/[\w\.\-]+(\.git)? of gitURIPattern
gitScpShape(s) ==
    /\ HasPrefix(s, "git@")
    /\ Strict(LAMBDA hp : Len(hp) = 2 /\ IsWord(hp[1]) /\ IsWords(hp[2], 2),
              Split(Drop(s, 4), ":"))

\* the alternative [\w\.\-]+/[\w\.\-]+/[\w\.\-]+//.* of gitURIPattern
gitSubdirShape(s) ==
    Strict(LAMBDA a :
        /\ IsWord(a[1])
        /\ Strict(LAMBDA b :
               /\ IsWord(b[1])
               /\ Strict(LAMBDA n : n >= 1 /\ Slice(b[2], n + 1, n + 2) = "//",
                         RunLen(b[2], WordChars)),
               Cut(a[2], "/")),
        Cut(s, "/"))

\* gitURIPattern.MatchString; [\w\.\-]+(\.git)? is [\w\.\-]+ and '.' meets
\* no newline in the model
gitURIPattern(s) ==
    \/ gitScpShape(s)
    \/ gitHTTPShape(s)
    \/ HasPrefix(s, "git://") /\ IsWords(Drop(s, 6), 3)
    \/ gitSubdirShape(s)
    \/ HasPrefix(s, "file://") /\ HasSuffix(Drop(s, 7), ".git")
    \/ IsWords(s, 2)

\* [\w\-]+(\.[\w\-]+)+.* at the start of s
HostShape(s) ==
    Strict(LAMBDA n :
        /\ n >= 1
        /\ Len(s) >= n + 2
        /\ Char(s, n + 1) = "."
        /\ Char(s, n + 2) \in LabelChars,
        RunLen(s, LabelChars))

\* httpURIPattern.MatchString
httpURIPattern(s) ==
    \/ HasPrefix(s, "http://") /\ HostShape(Drop(s, 7))
    \/ HasPrefix(s, "https://") /\ HostShape(Drop(s, 8))

\* the mutant: the pattern without its ~/ and file:// alternatives
filePathPatternNoTilde(s) ==
    \/ HasPrefix(s, "./")
    \/ Len(s) >= 3 /\ Char(s, 1) = "." /\ Char(s, 3) = "/"
    \/ HasPrefix(s, "/")
    \/ Len(s) >= 3 /\ Char(s, 1) \in Letters /\ Slice(s, 2, 3) = ":\\"

\* filePathPattern.MatchString; the pattern \../ is a dot, any byte, a slash
filePathPattern(s) ==
    \/ HasPrefix(s, "./")
    \/ Len(s) >= 3 /\ Char(s, 1) = "." /\ Char(s, 3) = "/"
    \/ HasPrefix(s, "/")
    \/ Len(s) >= 3 /\ Char(s, 1) \in Letters /\ Slice(s, 2, 3) = ":\\"
    \/ HasPrefix(s, "~/")
    \/ HasPrefix(s, "file://")

\* ociURIPattern.MatchString
ociURIPattern(s) == HasPrefix(s, "oci://") /\ HostShape(Drop(s, 6))

\* a literal pattern whose unescaped dots match any byte, at position i of s
WildAt(s, i, pat) ==
    /\ i + Len(pat) - 1 <= Len(s)
    /\ \A k \in 1..Len(pat) : Char(pat, k) = "." \/ Char(pat, k) = Char(s, i + k - 1)

\* [a-z0-9-]
EcrRegionChars == CharsOf(Lower) \cup Digits \cup {"-"}

\* [0-9]{12}.dkr.ecr.[a-z0-9-]*.amazonaws.com at position i of s
EcrAt(s, i) ==
    /\ i + 11 <= Len(s)
    /\ AllIn(SubSeq(s, i, i + 11), Digits)
    /\ WildAt(s, i + 12, ".dkr.ecr.")
    /\ \E k \in 0..RunLen(Drop(s, i + 20), EcrRegionChars) :
           WildAt(s, i + 21 + k, ".amazonaws.com")

\* (?:::1|127\.0\.0\.1|(?i:localhost)):\d{1,5} at position i of s
LoopbackAt(s, i) ==
    \E h \in {"::1", "127.0.0.1", "localhost"} :
        /\ i + Len(h) + 1 <= Len(s)
        /\ IF h = "localhost" THEN ToLower(SubSeq(s, i, i + Len(h) - 1)) = h
           ELSE SubSeq(s, i, i + Len(h) - 1) = h
        /\ Char(s, i + Len(h)) = ":"
        /\ Char(s, i + Len(h) + 1) \in Digits

\* the bytes a match of one of the patterns of matchRegistries can start with
RegistryStart == Digits \cup {"a", "g", "r", "p", "q", ":", "l", "L"}

\* one of the patterns of matchRegistries matches at position i of s
RegistryAt(s, i) ==
    \/ WildAt(s, i, "azurecr.io")
    \/ WildAt(s, i, "gcr.io")
    \/ WildAt(s, i, "registry.gitlab.com")
    \/ WildAt(s, i, "pkg.dev")
    \/ EcrAt(s, i)
    \/ i = 1 /\ WildAt(s, i, "quay.io")
    \/ LoopbackAt(s, i)

\* containsOCIRegistry: some pattern matches somewhere in src
containsOCIRegistry(src) ==
    \E i \in 1..Len(src) : Char(src, i) \in RegistryStart /\ RegistryAt(src, i)

\* the mutant: the oci:: prefix is not looked at
specialPrefixNoOCI(input) ==
    IF HasPrefix(input, "git::") THEN GitURI
    ELSE IF HasPrefix(input, "file::") THEN FileURI
    ELSE IF HasPrefix(input, "http::") THEN HTTPURI
    ELSE ""

\* the special prefixes ClassifyURI checks first: the kind, "" when none
specialPrefix(input) ==
    IF HasPrefix(input, "git::") THEN GitURI
    ELSE IF HasPrefix(input, "file::") THEN FileURI
    ELSE IF HasPrefix(input, "http::") THEN HTTPURI
    ELSE IF HasPrefix(input, "oci::") THEN OCIURI
    ELSE ""

\* ClassifyURI: url.Parse returns no error and the scheme http or https
parsesAsWeb(input) ==
    Strict(LAMBDA parsedURI : parsedURI.err = "" /\ parsedURI.Scheme \in {"http", "https"},
           urlParse(input))

\* ClassifyURI down to the known-registry test: some rule before the
\* unsupported-scheme check returns for this input
decidedBeforeScheme(input) ==
    \/ specialPrefix(input) # ""
    \/ HasPrefix(input, "github.com") \/ HasPrefix(input, "gitlab.com")
    \/ filePathPattern(input)
    \/ gitURIPattern(input)
    \/ httpURIPattern(input) /\ parsesAsWeb(input)
    \/ ociURIPattern(input)
    \/ containsOCIRegistry(input)

\* the tail of ClassifyURI without its unsupported-scheme check
unsupportedSchemeUnchecked(input) ==
    IF Contains(input, ".")
    THEN <<Unknown, "got " \o input
                    \o ". HTTP(S) URIs require a scheme (http:// or https://)">>
    ELSE <<Unknown, "">>

\* the tail of ClassifyURI with the dot test on the wrong branch
unsupportedDotInverted(input) ==
    Strict(LAMBDA parsedURI :
        IF parsedURI.err = "" /\ parsedURI.Scheme \notin {"", "http", "https"}
        THEN <<Unknown, "unsupported source protocol: " \o parsedURI.Scheme>>
        ELSE IF ~Contains(input, ".")
             THEN <<Unknown, "got " \o input
                             \o ". HTTP(S) URIs require a scheme (http:// or https://)">>
        ELSE <<Unknown, "">>,
        urlParse(input))

\* ClassifyURI from the unsupported-scheme check on: <<kind, err>>
unsupported(input) ==
    Strict(LAMBDA parsedURI :
        IF parsedURI.err = "" /\ parsedURI.Scheme \notin {"", "http", "https"}
        THEN <<Unknown, "unsupported source protocol: " \o parsedURI.Scheme>>
        ELSE IF Contains(input, ".")
             THEN <<Unknown, "got " \o input
                             \o ". HTTP(S) URIs require a scheme (http:// or https://)">>
        ELSE <<Unknown, "">>,
        urlParse(input))

\* ClassifyURI under a getHomeDir outcome: <<kind, err>>
ClassifyURI(input, home) ==
    IF specialPrefix(input) # "" THEN <<specialPrefix(input), "">>
    ELSE IF HasPrefix(input, "github.com") \/ HasPrefix(input, "gitlab.com")
         THEN <<GitURI, "">>
    ELSE IF filePathPattern(input)
         THEN IF HasSuffix(ExpandTilde(input, home), ".git") THEN <<GitURI, "">>
              ELSE <<FileURI, "">>
    ELSE IF gitURIPattern(input) THEN <<GitURI, "">>
    ELSE IF httpURIPattern(input) /\ parsesAsWeb(input) THEN <<HTTPURI, "">>
    ELSE IF ociURIPattern(input) THEN <<OCIURI, "">>
    ELSE IF containsOCIRegistry(input) THEN <<OCIURI, "">>
    ELSE unsupported(input)

(***************************************************************************)
(* github.com/whilp/git-urls, as gather/git/git.go calls it                *)
(***************************************************************************)
Transports == {"ssh", "git", "git+ssh", "http", "https", "ftp", "ftps", "rsync", "file"}

\* ParseTransport
ParseTransport(rawurl) ==
    Strict(LAMBDA u :
        IF u.err = "" /\ u.Scheme \notin Transports
        THEN [u EXCEPT !.err = "scheme is not a valid transport"]
        ELSE u,
        urlParse(rawurl))

\* [a-zA-Z0-9_]
ScpUserChars == Alnum \cup {"_"}

\* [a-zA-Z0-9./._-]
ScpPathChars == Alnum \cup {".", "/", "_", "-"}

\* ParseScp from the host on: r1 is rawurl behind the user
scpHostPath(hasUser, user, r1) ==
    Strict(LAMBDA hn :
        IF hn >= 1 /\ hn < Len(r1) /\ Char(r1, hn + 1) = ":"
        THEN Strict(LAMBDA r2 : Strict(LAMBDA pn :
                 IF pn >= 1
                 THEN URL("ssh", "", hasUser, user, Take(r1, hn), Take(r2, pn),
                          IF Slice(r2, pn + 1, pn + 1) = "?" THEN Drop(r2, pn + 1)
                          ELSE Drop(r2, pn),
                          FALSE, FALSE, "")
                 ELSE URLError("no scp URL found"),
                 RunLen(r2, ScpPathChars)), Drop(r1, hn + 1))
        ELSE URLError("no scp URL found"),
        RunLen(r1, WordChars))

\* ParseScp: ^([a-zA-Z0-9_]+@)?([a-zA-Z0-9._-]+):([a-zA-Z0-9./._-]+)(?:\?||$)(.*)$
ParseScp(rawurl) ==
    Strict(LAMBDA un :
        IF un >= 1 /\ un < Len(rawurl) /\ Char(rawurl, un + 1) = "@"
        THEN scpHostPath(TRUE, Take(rawurl, un), Drop(rawurl, un + 1))
        ELSE scpHostPath(FALSE, "", rawurl),
        RunLen(rawurl, ScpUserChars))

\* ParseLocal
ParseLocal(rawurl) == URL("file", "", FALSE, "", "", rawurl, "", FALSE, FALSE, "")

\* giturls.Parse: the first of ParseTransport, ParseScp, ParseLocal to succeed
gitUrlsParse(url) == Strict(LAMBDA rawurl :
    Strict(LAMBDA t :
        IF t.err = "" THEN t
        ELSE Strict(LAMBDA s : IF s.err = "" THEN s ELSE ParseLocal(rawurl), ParseScp(rawurl)),
        ParseTransport(rawurl)),
    url)

\* extractSubdirFromQuery: the value returned, the query and *subdir after it
extractSubdirFromQuery(values, key, subdir) ==
    Strict(LAMBDA q : Strict(LAMBDA parts :
        IF Len(parts) = 2
        THEN [value |-> parts[1], q |-> QDel(q, key), subdir |-> parts[2]]
        ELSE [value |-> parts[1], q |-> QDel(q, key), subdir |-> subdir],
        SplitN2(QGet(q, key), "//")), values)

\* the mutant: the test for "://" lost its negation
needsHTTPSInverted(t, rawURL) ==
    t = GitURI /\ ~Contains(rawURL, "git@") /\ Contains(rawURL, "://")

\* processUrl: the condition under which https:// is put in front
needsHTTPS(t, rawURL) ==
    t = GitURI /\ ~Contains(rawURL, "git@") /\ ~Contains(rawURL, "://")

\* the mutant: nothing is appended
withGitSuffixSkipped(path) == path

\* processUrl: the path with ".git" appended unless it ends with it
withGitSuffix(path) == IF HasSuffix(path, ".git") THEN path ELSE path \o ".git"

Result(src, ref, subdir, depth, err) ==
    [src |-> src, ref |-> ref, subdir |-> subdir, depth |-> depth, err |-> err]

\* processUrl: the string handed to the git-URL parser
urlToParse(t, rawURL) ==
    Strict(LAMBDA raw : IF Contains(raw, "::") THEN Split(raw, "::")[2] ELSE raw,
           IF needsHTTPS(t, rawURL) THEN "https://" \o rawURL ELSE rawURL)

\* processUrl from the reparsed URL on: query, path, suffix, result
splitURL(u) ==
    Strict(LAMBDA r : Strict(LAMBDA d : Strict(LAMBDA parts :
        Result(urlString([u EXCEPT !.RawQuery = QEncode(d.q),
                                   !.Path = withGitSuffix(parts[1])]),
               r.value,
               IF Len(parts) = 2 THEN parts[2] ELSE d.subdir,
               d.value,
               ""),
        SplitN2(u.Path, "//")),
        extractSubdirFromQuery(r.q, "depth", r.subdir)),
        extractSubdirFromQuery(parseQuery(u.RawQuery), "ref", ""))

\* processUrl once ClassifyURI returned t
processClassified(t, rawURL) ==
    IF t[2] # "" THEN Result("", "", "", "", "failed to classify URI: " \o t[2])
    ELSE Strict(LAMBDA parsedURL :
             IF parsedURL.err # ""
             THEN Result("", "", "", "", "failed to parse URL: " \o parsedURL.err)
             ELSE Strict(LAMBDA u :
                      IF u.err # ""
                      THEN Result("", "", "", "", "failed to reparse URL: " \o u.err)
                      ELSE splitURL(u),
                      urlParse(urlString(parsedURL))),
             gitUrlsParse(urlToParse(t[1], rawURL)))

\* processUrl under a getHomeDir outcome
processUrl(rawURL, home) ==
    Strict(LAMBDA t : processClassified(t, rawURL), ClassifyURI(rawURL, home))

(***************************************************************************)
(* The locators explored: prefix, head, host, path and query put together  *)
(***************************************************************************)
MaxSubdirDepth == 1

Prefixes == {"git::", "file::", "http::", "oci::"}

Heads ==
    {"", "https://", "http://", "git://", "ftp://", "file://", "oci://",
     "git@", "file:", "./", "../", "/", "~/", "C:\\"}

Hosts == {"h", "example.com", "github.com"}

RECURSIVE Subdir(_)
\* a subdirectory n levels deep
Subdir(n) == IF n = 1 THEN "p" ELSE "p" \o "/" \o Subdir(n - 1)

Paths ==
    {"", "/", "/o/r", "/o/r.git", ":o/r", ":o/r.git"}
    \cup {"/o/r//" \o Subdir(n) : n \in 1..MaxSubdirDepth}

Queries == {"", "?ref=m//s", "?ref=m//a::b", "?depth=1//q", "?x=1"}

Bodies(hosts) ==
    {head \o host \o path \o query :
        head \in Heads, host \in hosts, path \in Paths, query \in Queries}

\* locators the grammar above does not build
Extras ==
    {"~/", "~/r.git/", "~/o/../r.git", "../r.git", ".x/r", "C:\\r.git",
     "gitlab.com/o/r", "https://example.com/o/r?", "https://a.b", "http://a_b.c-d/",
     "git::a::b", "127.0.0.1:5000", "quay.io/o/r:latest", "ftpexamplecom",
     "oci://registry/org/policy:dev", "oci://localhost:5000/r", "FTP://h/r", "1:b"}

\* every body, every prefix in front of the bodies of one host, and the extras
Locators ==
    Bodies(Hosts)
    \cup {pre \o body : pre \in Prefixes, body \in Bodies({"example.com"})}
    \cup Extras

(***************************************************************************)
(* One run: a caller classifies a locator, or has it processed and then    *)
(* hands the clone URL it got back to processUrl once more                 *)
(***************************************************************************)
VARIABLES source, pc, home, kind, cerr, res, res2

\* the dispatcher of package gather: its table and the calls of Gather
VARIABLES protocolHandlers, gsource, gpc, gsrc, calls, gout, gret

urlVars == <<source, pc, home, kind, cerr, res, res2>>

gatherVars == <<protocolHandlers, gsource, gpc, gsrc, calls, gout, gret>>

\* one call of FileGatherer.copyDirectory: its parameters and the tree it
\* walks, the context, the walker goroutine, the file-copy goroutines, the
\* channels and the wait group, the destination, and the caller's side
VARIABLES copySource, copyDestination, tree, fault, cancelAt, ctxDone,
          walked, walker, walkErr, worker, errChan, errChanClosed, doneClosed,
          semaphore, wg, made, saved, caller, ret

copyVars ==
    <<copySource, copyDestination, tree, fault, cancelAt, ctxDone,
      walked, walker, walkErr, worker, errChan, errChanClosed, doneClosed,
      semaphore, wg, made, saved, caller, ret>>

\* one call of FileGatherer.copyDirectory on a directory of many files, its
\* goroutines counted by where they are: the fields of pool are the counts
\* and the positions named as in copyVars
VARIABLE pool

poolVars == <<pool>>

\* one call of GitGatherer.Gather: its parameters, what the authenticator and
\* the clone will answer, the results of processUrl, the calls made of
\* NewSSHAgentAuth and of PlainClone, and what is returned
VARIABLE clone

cloneVars == <<clone>>

\* one call of GitMetadata.GetPinnedURL: the receiver's LatestCommit, the
\* locator, and what is returned
VARIABLE pin

pinVars == <<pin>>

\* one call of untar: the archive, the limit, the position in the archive,
\* the locals of the loop, and what is returned
VARIABLE tar

tarVars == <<tar>>

vars == <<urlVars, gatherVars, copyVars, poolVars, cloneVars, pinVars, tarVars>>

NoResult == Result("", "", "", "", "")

NoHome == <<"", "">>

(***************************************************************************)
(* gather/file: FileGatherer.copyDirectory, its inputs and its constants   *)
(***************************************************************************)
\* semaphore := make(chan struct{}, 10)
SemaphoreCap == 10

\* errChan := make(chan error, 100)
ErrChanCap == 100

\* filepath.Dir
Dir(path) == Strict(LAMBDA i : Clean(Take(path, i)), LastIndex(path, "/"))

\* an entry filepath.Walk meets: its path relative to the root, and IsDir()
Entry(rel, dir) == [rel |-> rel, dir |-> dir]

\* a flat directory of one file more than the semaphore has slots
TreeWide ==
    <<Entry(".", TRUE)>> \o
    [i \in 1..(SemaphoreCap + 1) |->
        Entry("f" \o <<"01", "02", "03", "04", "05", "06", "07", "08", "09", "10", "11">>[i],
              FALSE)]

\* directories within directories, in the lexical order Walk keeps
TreeNested ==
    <<Entry(".", TRUE), Entry("a", FALSE), Entry("d", TRUE), Entry("d/b", FALSE),
      Entry("d/e", TRUE), Entry("d/e/c", FALSE)>>

\* file names with bytes that mean something in a URL
TreeOdd ==
    <<Entry(".", TRUE), Entry("a", FALSE), Entry("a#b", FALSE), Entry("c?d", FALSE)>>

Trees == {TreeWide, TreeNested, TreeOdd}

\* no operation on the entries of t fails
NoFault(t) == [i \in DOMAIN t |-> ""]

\* the operations of the file system that fail, by entry: "walk" (the lstat
\* of Walk), "mkdir" (os.MkdirAll), "open" (os.Open), "save" (saver.Save)
Faults ==
    [t \in Trees |->
        IF t = TreeWide THEN {NoFault(t), [NoFault(t) EXCEPT ![3] = "open"]}
        ELSE IF t = TreeNested
        THEN {NoFault(t),
              [NoFault(t) EXCEPT ![2] = "open"],
              [NoFault(t) EXCEPT ![6] = "save"],
              [NoFault(t) EXCEPT ![2] = "save", ![4] = "open"],
              [NoFault(t) EXCEPT ![5] = "mkdir"],
              [NoFault(t) EXCEPT ![4] = "walk"]}
        ELSE {NoFault(t), [NoFault(t) EXCEPT ![4] = "open"]}]

\* the parameters source and destination
CopySources == {"/src"}

CopyDestinations == {"/dst", ":"}

\* url.Parse of a parameter
ParsedParam == [p \in CopySources \cup CopyDestinations |-> urlParse(p)]

\* src.Path and dst.Path of the calls whose parameters parse
Roots(params) == {ParsedParam[p].Path : p \in {q \in params : ParsedParam[q].err = ""}}

Rels == UNION {{t[i].rel : i \in DOMAIN t} : t \in Trees}

\* filepath.Join(root, relPath) for every root and entry
Joined ==
    [root \in Roots(CopySources) \cup Roots(CopyDestinations) |->
        [rel \in Rels |-> FilepathJoin(root, rel)]]

\* FileSaver.Save: url.Parse(destination) for every destPath
SaveParsed ==
    [destPath \in {Joined[root][rel] : root \in Roots(CopyDestinations), rel \in Rels} |->
        urlParse(destPath)]

\* FileSaver.Save: filepath.Dir(dst.Path) for every file Save creates, and
\* the directory of every destPath
DirOf ==
    [path \in DOMAIN SaveParsed \cup {SaveParsed[q].Path : q \in DOMAIN SaveParsed} |->
        Dir(path)]

\* the context has not been cancelled
NotCancelled == [walker |-> "", walked |-> 0]

\* no call of copyDirectory is under way
NoCopy ==
    /\ copySource = ""
    /\ copyDestination = ""
    /\ tree = <<>>
    /\ fault = <<>>
    /\ ctxDone = FALSE
    /\ cancelAt = NotCancelled
    /\ walked = 0
    /\ walker = "idle"
    /\ walkErr = ""
    /\ worker = <<>>
    /\ errChan = <<>>
    /\ errChanClosed = FALSE
    /\ doneClosed = FALSE
    /\ semaphore = 0
    /\ wg = 0
    /\ made = {}
    /\ saved = <<>>
    /\ caller = "idle"
    /\ ret = [meta |-> "", err |-> ""]

\* the numbers of files of the directories copied by the counted call: fewer
\* than the semaphore holds, more than it holds, and more than errChan and
\* the caller's one receive take together
PoolSizes == {1, SemaphoreCap + 1, ErrChanCap + 2}

\* the counted call at the moment the walker goroutine has been started
PoolStart(files, failing) ==
    [files |-> files, failing |-> failing, walked |-> 0, walker |-> "walk",
     running |-> 0, deferring |-> 0, finished |-> 0, semaphore |-> 0, wg |-> 0,
     errChan |-> 0, errChanClosed |-> FALSE, doneClosed |-> FALSE,
     caller |-> "range", err |-> ""]

\* no counted call of copyDirectory is under way
NoPool ==
    pool = [PoolStart(0, FALSE) EXCEPT !.walker = "idle", !.caller = "idle"]

(***************************************************************************)
(* GitGatherer.Gather: the calls explored                                  *)
(***************************************************************************)
\* the sources handed to GitGatherer.Gather: scp-like and ssh:// locators,
\* https locators with and without ref, depth and subdirectory, a depth that
\* is no number, and a locator ClassifyURI rejects
CloneSources ==
    {"git@github.com:o/r.git", "git@github.com:o/r.git//sub",
     "git::git@github.com:o/r.git?ref=main", "ssh://git@github.com/o/r.git",
     "ssh://git@github.com/o/r.git?depth=2", "https://github.com/o/r.git",
     "https://github.com/o/r.git?ref=main&depth=1", "https://github.com/o/r.git?depth=x",
     "https://github.com/o/r.git//sub?ref=main", "github.com/o/r", "basic.git"}

\* processUrl(source) for the sources explored
CloneProcessed == [rawURL \in CloneSources |-> processUrl(rawURL, NoHome)]

\* a call Gather(ctx, source, destination) with an authenticator and a
\* remote that answer as authFails and cloneFails say
CloneCall(gitSource, authFails, cloneFails) ==
    [source |-> gitSource, authFails |-> authFails, cloneFails |-> cloneFails,
     pc |-> "call", src |-> "", ref |-> "", subdir |-> "", depth |-> "",
     ReferenceName |-> "", Depth |-> 0, authCalls |-> 0, clones |-> <<>>,
     meta |-> "", err |-> ""]

\* no call of GitGatherer.Gather is under way
NoClone == clone = [CloneCall("", FALSE, FALSE) EXCEPT !.pc = "idle"]

(***************************************************************************)
(* GitMetadata.GetPinnedURL: the calls explored                            *)
(***************************************************************************)
\* the forms of a git locator: what stands before the host and what stands
\* between the host and the path
PinForms ==
    {<<"git::", "/">>, <<"git://", "/">>, <<"git::git://", "/">>, <<"https://", "/">>,
     <<"git::https://", "/">>, <<"git@", ":">>, <<"git::git@", ":">>}

PinHosts == {"example.com", "test-url.com"}

PinPaths == {"org/repo.git", "org/repo"}

PinSubdirs == {"", "//path/to/file"}

PinQueries == {"", "?ref=abc1234"}

LatestCommits ==
    {"", "def456", "e3b0c44298fc1c149afbf4c8996fb92427ae41e4649b934ca495991b7852b855"}

\* a call m.GetPinnedURL(u) on a GitMetadata with the given LatestCommit,
\* u put together from its parts
PinCall(form, host, path, subdir, query, commit) ==
    [form |-> form, host |-> host, path |-> path, subdir |-> subdir, query |-> query,
     u |-> form[1] \o host \o form[2] \o path \o subdir \o query,
     LatestCommit |-> commit, pc |-> "call", url |-> "", err |-> ""]

\* no call of GetPinnedURL is under way
NoPin ==
    pin = [PinCall(<<"", "">>, "", "", "", "", "") EXCEPT !.pc = "idle"]

(***************************************************************************)
(* package expander: the archives and limits explored                      *)
(***************************************************************************)
MaxEntries == 3

\* the kinds of header of a tar archive: a regular file, a directory, and a
\* PAX header (tar.TypeXHeader, tar.TypeXGlobalHeader)
HeaderKinds == {"file", "dir", "pax"}

\* the archives: every sequence of at most MaxEntries headers
Archives == UNION {[1..n -> HeaderKinds] : n \in 0..MaxEntries}

\* TarExpander.FilesLimit; 0 is no limit
FilesLimits == 0..MaxEntries

\* a call untar(input, dst, src, dir, umask, 0, filesLimit)
UntarCall(archive, dir, filesLimit) ==
    [archive |-> archive, dir |-> dir, filesLimit |-> filesLimit, read |-> 0,
     filesCount |-> 0, finished |-> FALSE, written |-> <<>>, pc |-> "loop", err |-> ""]

\* no call of untar is under way
NoTar == tar = [UntarCall(<<>>, TRUE, 0) EXCEPT !.pc = "idle"]

(***************************************************************************)
(* package gather: the dispatcher Gather and its table protocolHandlers    *)
(***************************************************************************)
MaxCallers == 2

\* the goroutines that call Gather
Callers == 1..MaxCallers

\* var protocolHandlers = map[string]Gatherer{...}: the entries that are
\* not commented out
StartHandlers == [scheme \in {"file"} |-> "FileGatherer"]

\* the sources handed to Gather
GatherSources ==
    {"file:///tmp/foo.txt", "FILE:///tmp/d%20e", "ftp://example.com/file.txt",
     "http://example.com/x", "/tmp/x", ":"}

\* url.Parse of each source
GatherParsed == [rawURL \in GatherSources |-> urlParse(rawURL)]

\* what a gatherer's Gather can return: metadata and a nil error, or nil and
\* an error
GathererOutcomes ==
    {[meta |-> "FileMetadata", err |-> ""],
     [meta |-> "nil", err |-> "failed to determine source kind"]}

NoOutcome == [meta |-> "", err |-> ""]

\* no call of Gather is under way
NoGather ==
    /\ protocolHandlers = StartHandlers
    /\ gsource = [c \in Callers |-> ""]
    /\ gpc = [c \in Callers |-> "idle"]
    /\ gsrc = [c \in Callers |-> URLError("")]
    /\ calls = [c \in Callers |-> <<>>]
    /\ gout = [c \in Callers |-> NoOutcome]
    /\ gret = [c \in Callers |-> NoOutcome]

Init ==
    /\ source \in Locators
    /\ pc = "start"
    /\ home = NoHome
    /\ kind = ""
    /\ cerr = ""
    /\ res = NoResult
    /\ res2 = NoResult
    /\ NoClone
    /\ NoPin
    /\ NoTar
    /\ NoPool
    /\ NoGather
    /\ NoCopy

\* ExpandTilde calls getHomeDir for a path that starts with ~/ only
HomeCalls(path) == IF HasPrefix(path, "~/") THEN HomeOutcomes ELSE {NoHome}

\* a call of ClassifyURI(source)
Classify ==
    /\ pc = "start"
    /\ \E h \in HomeCalls(source) : \E t \in {ClassifyURI(source, h)} :
        /\ home' = h
        /\ kind' = t[1]
        /\ cerr' = t[2]
    /\ pc' = "classified"
    /\ UNCHANGED <<source, res, res2>>
    /\ UNCHANGED <<gatherVars, copyVars, poolVars, cloneVars, pinVars, tarVars>>

\* a call of processUrl(source); kind and cerr are its locals t and err
Process ==
    /\ pc = "start"
    /\ \E h \in HomeCalls(source) : \E t \in {ClassifyURI(source, h)} :
        /\ home' = h
        /\ kind' = t[1]
        /\ cerr' = t[2]
        /\ res' = processClassified(t, source)
    /\ pc' = "processed"
    /\ UNCHANGED <<source, res2>>
    /\ UNCHANGED <<gatherVars, copyVars, poolVars, cloneVars, pinVars, tarVars>>

\* a call of processUrl on the clone URL the first call returned
Reprocess ==
    /\ pc = "processed"
    /\ res.err = ""
    /\ res2' = processUrl(res.src, home)
    /\ pc' = "reprocessed"
    /\ UNCHANGED <<source, home, kind, cerr, res>>
    /\ UNCHANGED <<gatherVars, copyVars, poolVars, cloneVars, pinVars, tarVars>>

Next == Classify \/ Process \/ Reprocess

Spec == Init /\ [][Next]_vars

TypeOK ==
    /\ pc \in {"start", "classified", "processed", "reprocessed"}
    /\ kind \in {"", GitURI, HTTPURI, FileURI, OCIURI, Unknown}

(***************************************************************************)
(* Concurrent calls of gather.Gather(ctx, source, destination)             *)
(***************************************************************************)
GatherInit ==
    /\ source = ""
    /\ pc = "idle"
    /\ home = NoHome
    /\ kind = ""
    /\ cerr = ""
    /\ res = NoResult
    /\ res2 = NoResult
    /\ NoClone
    /\ NoPin
    /\ NoTar
    /\ NoPool
    /\ protocolHandlers = StartHandlers
    /\ gsource \in [Callers -> GatherSources]
    /\ gpc = [c \in Callers |-> "call"]
    /\ gsrc = [c \in Callers |-> URLError("")]
    /\ calls = [c \in Callers |-> <<>>]
    /\ gout = [c \in Callers |-> NoOutcome]
    /\ gret = [c \in Callers |-> NoOutcome]
    /\ NoCopy

\* a parse failure handed on with the stage that met it
parseErrorStaged(rawURL, msg) ==
    "failed to parse source URI: parse \"" \o rawURL \o "\": " \o msg

\* (*url.Error).Error() for the Parse of a string that strconv.Quote leaves
\* as it is
parseError(rawURL, msg) == "parse \"" \o rawURL \o "\": " \o msg

\* src, err := url.Parse(source); if err != nil { return nil, err }
GatherParse(c) ==
    /\ gpc[c] = "call"
    /\ \E u \in {GatherParsed[gsource[c]]} :
        IF u.err # ""
        THEN /\ gret' = [gret EXCEPT ![c] =
                             [meta |-> "nil", err |-> parseError(gsource[c], u.err)]]
             /\ gpc' = [gpc EXCEPT ![c] = "returned"]
             /\ UNCHANGED gsrc
        ELSE /\ gsrc' = [gsrc EXCEPT ![c] = u]
             /\ gpc' = [gpc EXCEPT ![c] = "parsed"]
             /\ UNCHANGED gret
    /\ UNCHANGED <<protocolHandlers, gsource, calls, gout>>
    /\ UNCHANGED <<urlVars, copyVars, poolVars, cloneVars, pinVars, tarVars>>

\* a fallback to the file gatherer for a scheme without an entry
handlerForWithFallback(table, srcProtocol) ==
    IF srcProtocol \in DOMAIN table THEN table[srcProtocol] ELSE "FileGatherer"

\* gatherer, ok := protocolHandlers[srcProtocol]: the gatherer, "" when !ok
handlerFor(table, srcProtocol) ==
    IF srcProtocol \in DOMAIN table THEN table[srcProtocol] ELSE ""

\* the lookup, and then the call gatherer.Gather(ctx, src.Path, destination)
\* or the return of the unsupported-protocol error
GatherLookup(c) ==
    /\ gpc[c] = "parsed"
    /\ \E gatherer \in {handlerFor(protocolHandlers, gsrc[c].Scheme)} :
        IF gatherer # ""
        THEN /\ calls' = [calls EXCEPT ![c] =
                    Append(@, [gatherer |-> gatherer, source |-> gsrc[c].Path])]
             /\ gpc' = [gpc EXCEPT ![c] = "gathering"]
             /\ UNCHANGED gret
        ELSE /\ gret' = [gret EXCEPT ![c] =
                    [meta |-> "nil",
                     err |-> "unsupported source protocol: " \o gsrc[c].Scheme]]
             /\ gpc' = [gpc EXCEPT ![c] = "returned"]
             /\ UNCHANGED calls
    /\ UNCHANGED <<protocolHandlers, gsource, gsrc, gout>>
    /\ UNCHANGED <<urlVars, copyVars, poolVars, cloneVars, pinVars, tarVars>>

\* the gatherer called comes back with its metadata or its error
GathererReturns(c) ==
    /\ gpc[c] = "gathering"
    /\ \E out \in GathererOutcomes : gout' = [gout EXCEPT ![c] = out]
    /\ gpc' = [gpc EXCEPT ![c] = "gathered"]
    /\ UNCHANGED <<protocolHandlers, gsource, gsrc, calls, gret>>
    /\ UNCHANGED <<urlVars, copyVars, poolVars, cloneVars, pinVars, tarVars>>

\* a return that wraps the gatherer's error
passedOnWrapped(out) ==
    IF out.err = "" THEN out ELSE [out EXCEPT !.err = "failed to gather: " \o out.err]

\* return gatherer.Gather(...): what Gather hands to its caller
passedOn(out) == out

\* Gather returns what the gatherer returned
GatherReturn(c) ==
    /\ gpc[c] = "gathered"
    /\ gret' = [gret EXCEPT ![c] = passedOn(gout[c])]
    /\ gpc' = [gpc EXCEPT ![c] = "returned"]
    /\ UNCHANGED <<protocolHandlers, gsource, gsrc, calls, gout>>
    /\ UNCHANGED <<urlVars, copyVars, poolVars, cloneVars, pinVars, tarVars>>

GatherNext ==
    \E c \in Callers :
        GatherParse(c) \/ GatherLookup(c) \/ GathererReturns(c) \/ GatherReturn(c)

GatherSpec == GatherInit /\ [][GatherNext]_vars

(***************************************************************************)
(* One call of FileGatherer.copyDirectory(ctx, source, destination): the   *)
(* caller's goroutine, the goroutine that walks the tree, and one          *)
(* goroutine for each file; the context may be cancelled at any moment     *)
(***************************************************************************)
CopyInit ==
    /\ source = ""
    /\ pc = "idle"
    /\ home = NoHome
    /\ kind = ""
    /\ cerr = ""
    /\ res = NoResult
    /\ res2 = NoResult
    /\ NoClone
    /\ NoPin
    /\ NoTar
    /\ NoPool
    /\ NoGather
    /\ copySource \in CopySources
    /\ copyDestination \in CopyDestinations
    /\ tree \in Trees
    /\ fault \in Faults[tree]
    /\ ctxDone = FALSE
    /\ cancelAt = NotCancelled
    /\ walked = 0
    /\ walker = "idle"
    /\ walkErr = ""
    /\ worker = [i \in DOMAIN tree |-> "none"]
    /\ errChan = <<>>
    /\ errChanClosed = FALSE
    /\ doneClosed = FALSE
    /\ semaphore = 0
    /\ wg = 0
    /\ made = {}
    /\ saved = [i \in DOMAIN tree |-> <<>>]
    /\ caller = "call"
    /\ ret = [meta |-> "", err |-> ""]

\* the files of the tree, by their place in the walk
Files == {i \in DOMAIN tree : ~tree[i].dir}

\* path, the first argument of the walk function, for entry i
srcPath(i) == Joined[ParsedParam[copySource].Path][tree[i].rel]

\* destPath := filepath.Join(dst.Path, relPath) for entry i
destPath(i) == Joined[ParsedParam[copyDestination].Path][tree[i].rel]

\* the file copies in progress: the goroutines that hold a slot
InProgress == {i \in DOMAIN worker : worker[i] \in {"run", "defer"}}

\* url.Parse of source and destination; then the channels are made, the
\* walker goroutine is started and the caller goes on to range over errChan
CopyStart ==
    /\ caller = "call"
    /\ IF ParsedParam[copySource].err # ""
       THEN /\ ret' = [meta |-> "nil",
                       err |-> "failed to parse source URI: "
                               \o parseError(copySource, ParsedParam[copySource].err)]
            /\ caller' = "returned"
            /\ UNCHANGED walker
       ELSE IF ParsedParam[copyDestination].err # ""
       THEN /\ ret' = [meta |-> "nil",
                       err |-> "failed to parse destination URI: "
                               \o parseError(copyDestination,
                                             ParsedParam[copyDestination].err)]
            /\ caller' = "returned"
            /\ UNCHANGED walker
       ELSE /\ caller' = "range"
            /\ walker' = "walk"
            /\ UNCHANGED ret
    /\ UNCHANGED <<copySource, copyDestination, tree, fault, cancelAt, ctxDone, walked, walkErr,
                   worker, errChan, errChanClosed, doneClosed, semaphore, wg, made, saved>>
    /\ UNCHANGED <<urlVars, gatherVars, poolVars, cloneVars, pinVars, tarVars>>

\* the context is cancelled; cancelAt keeps where the walk was at that moment
Cancel ==
    /\ caller # "idle"
    /\ ~ctxDone
    /\ ctxDone' = TRUE
    /\ cancelAt' = [walker |-> walker, walked |-> walked]
    /\ UNCHANGED <<copySource, copyDestination, tree, fault, walked, walker, walkErr,
                   worker, errChan, errChanClosed, doneClosed, semaphore, wg, made, saved,
                   caller, ret>>
    /\ UNCHANGED <<urlVars, gatherVars, poolVars, cloneVars, pinVars, tarVars>>

\* a walk function that does not look at the context
cancelSeenNever(cancelled) == FALSE

\* select { case <-ctx.Done(): return ctx.Err(); default: }
cancelSeen(cancelled) == cancelled

\* a walk function that makes no directory
mkdirAllSkipped(dirs, path) == dirs

\* os.MkdirAll(path, 0755) on the directories made so far
mkdirAll(dirs, path) == dirs \cup {path}

\* the walk function on the next entry, up to the send on semaphore; Walk
\* ends with the first error the function returns
WalkEntry ==
    /\ walker = "walk"
    /\ walked < Len(tree)
    /\ LET i == walked + 1
       IN  IF fault[i] = "walk"
           THEN /\ walkErr' = "failed to walk path: lstat " \o srcPath(i)
                               \o ": permission denied"
                /\ walker' = "walked"
                /\ UNCHANGED <<walked, made>>
           ELSE IF cancelSeen(ctxDone)
           THEN /\ walkErr' = "context canceled"
                /\ walker' = "walked"
                /\ UNCHANGED <<walked, made>>
           ELSE IF tree[i].dir
           THEN IF fault[i] = "mkdir"
                THEN /\ walkErr' = "failed to create directory: mkdir " \o destPath(i)
                                    \o ": permission denied"
                     /\ walker' = "walked"
                     /\ UNCHANGED <<walked, made>>
                ELSE /\ made' = mkdirAll(made, destPath(i))
                     /\ walked' = i
                     /\ UNCHANGED <<walker, walkErr>>
           ELSE /\ walker' = "acquire"
                /\ UNCHANGED <<walked, walkErr, made>>
    /\ UNCHANGED <<copySource, copyDestination, tree, fault, cancelAt, ctxDone,
                   worker, errChan, errChanClosed, doneClosed, semaphore, wg, saved,
                   caller, ret>>
    /\ UNCHANGED <<urlVars, gatherVars, poolVars, cloneVars, pinVars, tarVars>>

\* a semaphore of no capacity limit
hasSlotAlways(held) == TRUE

\* semaphore <- struct{}{} goes through: the channel has room
hasSlot(held) == held < SemaphoreCap

\* semaphore <- struct{}{}; wg.Add(1); go func() {...}() for a file
StartWorker ==
    /\ walker = "acquire"
    /\ hasSlot(semaphore)
    /\ semaphore' = semaphore + 1
    /\ wg' = wg + 1
    /\ worker' = [worker EXCEPT ![walked + 1] = "run"]
    /\ walked' = walked + 1
    /\ walker' = "walk"
    /\ UNCHANGED <<copySource, copyDestination, tree, fault, cancelAt, ctxDone, walkErr,
                   errChan, errChanClosed, doneClosed, made, saved, caller, ret>>
    /\ UNCHANGED <<urlVars, gatherVars, poolVars, cloneVars, pinVars, tarVars>>

\* Walk has met every entry and returns nil
WalkEnd ==
    /\ walker = "walk"
    /\ walked = Len(tree)
    /\ walkErr' = ""
    /\ walker' = "walked"
    /\ UNCHANGED <<copySource, copyDestination, tree, fault, cancelAt, ctxDone, walked,
                   worker, errChan, errChanClosed, doneClosed, semaphore, wg, made, saved,
                   caller, ret>>
    /\ UNCHANGED <<urlVars, gatherVars, poolVars, cloneVars, pinVars, tarVars>>

\* if err != nil { errChan <- err }, which waits while the buffer is full
WalkReport ==
    /\ walker = "walked"
    /\ IF walkErr # ""
       THEN /\ Len(errChan) < ErrChanCap
            /\ errChan' = Append(errChan, walkErr)
       ELSE UNCHANGED errChan
    /\ walker' = "wait"
    /\ UNCHANGED <<copySource, copyDestination, tree, fault, cancelAt, ctxDone, walked, walkErr,
                   worker, errChanClosed, doneClosed, semaphore, wg, made, saved,
                   caller, ret>>
    /\ UNCHANGED <<urlVars, gatherVars, poolVars, cloneVars, pinVars, tarVars>>

\* a wait group whose Wait returns at once
waitOverAtOnce(counter) == TRUE

\* wg.Wait() returns when the counter of the wait group is zero
waitOver(counter) == counter = 0

\* wg.Wait() returns; close(errChan)
WaitAndClose ==
    /\ walker = "wait"
    /\ waitOver(wg)
    /\ errChanClosed' = TRUE
    /\ walker' = "closed"
    /\ UNCHANGED <<copySource, copyDestination, tree, fault, cancelAt, ctxDone, walked, walkErr,
                   worker, errChan, doneClosed, semaphore, wg, made, saved, caller, ret>>
    /\ UNCHANGED <<urlVars, gatherVars, poolVars, cloneVars, pinVars, tarVars>>

\* defer close(done): the walker goroutine ends
CloseDone ==
    /\ walker = "closed"
    /\ doneClosed' = TRUE
    /\ walker' = "exit"
    /\ UNCHANGED <<copySource, copyDestination, tree, fault, cancelAt, ctxDone, walked, walkErr,
                   worker, errChan, errChanClosed, semaphore, wg, made, saved, caller, ret>>
    /\ UNCHANGED <<urlVars, gatherVars, poolVars, cloneVars, pinVars, tarVars>>

\* a copy that gives up when the context is cancelled
copyErrorOnCancel(i) ==
    IF ctxDone THEN "context canceled"
    ELSE IF fault[i] = "open" THEN "open " \o srcPath(i) \o ": permission denied"
    ELSE IF SaveParsed[destPath(i)].err # ""
    THEN parseError(destPath(i), SaveParsed[destPath(i)].err)
    ELSE IF fault[i] = "save"
    THEN "write " \o SaveParsed[destPath(i)].Path \o ": no space left on device"
    ELSE ""

\* the error of the goroutine that copies file i, "" when the copy succeeds:
\* os.Open(path), saver.NewSaver("file"), and Save with its url.Parse
copyError(i) ==
    IF fault[i] = "open" THEN "open " \o srcPath(i) \o ": permission denied"
    ELSE IF SaveParsed[destPath(i)].err # ""
    THEN parseError(destPath(i), SaveParsed[destPath(i)].err)
    ELSE IF fault[i] = "save"
    THEN "write " \o SaveParsed[destPath(i)].Path \o ": no space left on device"
    ELSE ""

\* a caller that is handed no error
wrappedDropped(err) == ""

\* fmt.Errorf("failed to copy directory: %w", err)
wrapped(err) == "failed to copy directory: " \o err

\* the goroutine of file i.  It opens the file and saves it (FileSaver.Save
\* makes the directory of dst.Path and writes dst.Path); nothing of that is
\* read by another goroutine, so the deferred function, which gives the slot
\* back and calls wg.Done(), runs in the same step.  Or it sends its error on
\* errChan, which waits while the buffer is full, and returns: the deferred
\* function is then a step of its own.
Worker(i) ==
    /\ worker[i] = "run"
    /\ IF copyError(i) # ""
       THEN /\ Len(errChan) < ErrChanCap
            /\ errChan' = Append(errChan, copyError(i))
            /\ worker' = [worker EXCEPT ![i] = "defer"]
            /\ UNCHANGED <<made, saved, semaphore, wg>>
       ELSE /\ made' = mkdirAll(made, DirOf[SaveParsed[destPath(i)].Path])
            /\ saved' = [saved EXCEPT ![i] = Append(@, SaveParsed[destPath(i)].Path)]
            /\ semaphore' = semaphore - 1
            /\ wg' = wg - 1
            /\ worker' = [worker EXCEPT ![i] = "done"]
            /\ UNCHANGED errChan
    /\ UNCHANGED <<copySource, copyDestination, tree, fault, cancelAt, ctxDone, walked, walker,
                   walkErr, errChanClosed, doneClosed, caller, ret>>
    /\ UNCHANGED <<urlVars, gatherVars, poolVars, cloneVars, pinVars, tarVars>>

\* the deferred function of a goroutine that has sent its error:
\* <-semaphore; wg.Done()
WorkerDone(i) ==
    /\ worker[i] = "defer"
    /\ semaphore' = semaphore - 1
    /\ wg' = wg - 1
    /\ worker' = [worker EXCEPT ![i] = "done"]
    /\ UNCHANGED <<copySource, copyDestination, tree, fault, cancelAt, ctxDone, walked, walker,
                   walkErr, errChan, errChanClosed, doneClosed, made, saved, caller, ret>>
    /\ UNCHANGED <<urlVars, gatherVars, poolVars, cloneVars, pinVars, tarVars>>

\* for err := range errChan: an error arrives, and the caller returns it
CallerReceives ==
    /\ caller = "range"
    /\ errChan # <<>>
    /\ ret' = [meta |-> "nil", err |-> wrapped(Head(errChan))]
    /\ errChan' = Tail(errChan)
    /\ caller' = "returned"
    /\ UNCHANGED <<copySource, copyDestination, tree, fault, cancelAt, ctxDone, walked, walker,
                   walkErr, worker, errChanClosed, doneClosed, semaphore, wg, made, saved>>
    /\ UNCHANGED <<urlVars, gatherVars, poolVars, cloneVars, pinVars, tarVars>>

\* the range ends: errChan is closed and empty
CallerRangeEnds ==
    /\ caller = "range"
    /\ errChan = <<>>
    /\ errChanClosed
    /\ caller' = "done"
    /\ UNCHANGED <<copySource, copyDestination, tree, fault, cancelAt, ctxDone, walked, walker,
                   walkErr, worker, errChan, errChanClosed, doneClosed, semaphore, wg,
                   made, saved, ret>>
    /\ UNCHANGED <<urlVars, gatherVars, poolVars, cloneVars, pinVars, tarVars>>

\* <-done, then the return of the DirectoryMetadata
CallerReturns ==
    /\ caller = "done"
    /\ doneClosed
    /\ ret' = [meta |-> "DirectoryMetadata", err |-> ""]
    /\ caller' = "returned"
    /\ UNCHANGED <<copySource, copyDestination, tree, fault, cancelAt, ctxDone, walked, walker,
                   walkErr, worker, errChan, errChanClosed, doneClosed, semaphore, wg,
                   made, saved>>
    /\ UNCHANGED <<urlVars, gatherVars, poolVars, cloneVars, pinVars, tarVars>>

CopyNext ==
    \/ CopyStart
    \/ Cancel
    \/ WalkEntry
    \/ StartWorker
    \/ WalkEnd
    \/ WalkReport
    \/ WaitAndClose
    \/ CloseDone
    \/ \E i \in DOMAIN worker : Worker(i)
    \/ \E i \in DOMAIN worker : WorkerDone(i)
    \/ CallerReceives
    \/ CallerRangeEnds
    \/ CallerReturns

CopySpec == CopyInit /\ [][CopyNext]_vars

(***************************************************************************)
(* copyDirectory on a flat directory of pool.files files, all of which     *)
(* copy or all of which fail (a destination that cannot be written): the   *)
(* same goroutines as above, counted instead of named                      *)
(***************************************************************************)
PoolInit ==
    /\ source = ""
    /\ pc = "idle"
    /\ home = NoHome
    /\ kind = ""
    /\ cerr = ""
    /\ res = NoResult
    /\ res2 = NoResult
    /\ NoClone
    /\ NoPin
    /\ NoTar
    /\ NoGather
    /\ NoCopy
    /\ pool \in {PoolStart(n, f) : n \in PoolSizes, f \in BOOLEAN}

\* the walk function on the next file: semaphore <- struct{}{}; wg.Add(1);
\* go func() {...}()
PoolStartWorker ==
    /\ pool.walker = "walk"
    /\ pool.walked < pool.files
    /\ hasSlot(pool.semaphore)
    /\ pool' = [pool EXCEPT !.walked = @ + 1, !.semaphore = @ + 1, !.wg = @ + 1,
                            !.running = @ + 1]
    /\ UNCHANGED <<urlVars, gatherVars, copyVars, cloneVars, pinVars, tarVars>>

\* Walk has met every file and returns nil; nothing is sent by the walker
PoolWalkEnd ==
    /\ pool.walker = "walk"
    /\ pool.walked = pool.files
    /\ pool' = [pool EXCEPT !.walker = "wait"]
    /\ UNCHANGED <<urlVars, gatherVars, copyVars, cloneVars, pinVars, tarVars>>

\* a goroutine copies its file; its deferred function: <-semaphore; wg.Done()
PoolWorkerCopies ==
    /\ pool.running > 0
    /\ ~pool.failing
    /\ pool' = [pool EXCEPT !.running = @ - 1, !.finished = @ + 1,
                            !.semaphore = @ - 1, !.wg = @ - 1]
    /\ UNCHANGED <<urlVars, gatherVars, copyVars, cloneVars, pinVars, tarVars>>

\* a goroutine whose copy failed: errChan <- err, which waits while the
\* buffer is full
PoolWorkerSends ==
    /\ pool.running > 0
    /\ pool.failing
    /\ pool.errChan < ErrChanCap
    /\ pool' = [pool EXCEPT !.running = @ - 1, !.deferring = @ + 1, !.errChan = @ + 1]
    /\ UNCHANGED <<urlVars, gatherVars, copyVars, cloneVars, pinVars, tarVars>>

\* the deferred function of a goroutine that has sent its error
PoolWorkerDone ==
    /\ pool.deferring > 0
    /\ pool' = [pool EXCEPT !.deferring = @ - 1, !.finished = @ + 1,
                            !.semaphore = @ - 1, !.wg = @ - 1]
    /\ UNCHANGED <<urlVars, gatherVars, copyVars, cloneVars, pinVars, tarVars>>

\* wg.Wait() returns; close(errChan)
PoolWaitAndClose ==
    /\ pool.walker = "wait"
    /\ waitOver(pool.wg)
    /\ pool' = [pool EXCEPT !.walker = "closed", !.errChanClosed = TRUE]
    /\ UNCHANGED <<urlVars, gatherVars, copyVars, cloneVars, pinVars, tarVars>>

\* defer close(done): the walker goroutine ends
PoolCloseDone ==
    /\ pool.walker = "closed"
    /\ pool' = [pool EXCEPT !.walker = "exit", !.doneClosed = TRUE]
    /\ UNCHANGED <<urlVars, gatherVars, copyVars, cloneVars, pinVars, tarVars>>

\* for err := range errChan: an error arrives, and the caller returns it
PoolCallerReceives ==
    /\ pool.caller = "range"
    /\ pool.errChan > 0
    /\ pool' = [pool EXCEPT !.errChan = @ - 1, !.caller = "returned",
                            !.err = "failed to copy directory"]
    /\ UNCHANGED <<urlVars, gatherVars, copyVars, cloneVars, pinVars, tarVars>>

\* the range ends: errChan is closed and empty
PoolCallerRangeEnds ==
    /\ pool.caller = "range"
    /\ pool.errChan = 0
    /\ pool.errChanClosed
    /\ pool' = [pool EXCEPT !.caller = "done"]
    /\ UNCHANGED <<urlVars, gatherVars, copyVars, cloneVars, pinVars, tarVars>>

\* <-done; return &DirectoryMetadata{...}, nil
PoolCallerReturns ==
    /\ pool.caller = "done"
    /\ pool.doneClosed
    /\ pool' = [pool EXCEPT !.caller = "returned"]
    /\ UNCHANGED <<urlVars, gatherVars, copyVars, cloneVars, pinVars, tarVars>>

PoolNext ==
    \/ PoolStartWorker
    \/ PoolWalkEnd
    \/ PoolWorkerCopies
    \/ PoolWorkerSends
    \/ PoolWorkerDone
    \/ PoolWaitAndClose
    \/ PoolCloseDone
    \/ PoolCallerReceives
    \/ PoolCallerRangeEnds
    \/ PoolCallerReturns

PoolSpec == PoolInit /\ [][PoolNext]_vars

(***************************************************************************)
(* One call of GitGatherer.Gather(ctx, source, destination)                *)
(***************************************************************************)
CloneInit ==
    /\ source = ""
    /\ pc = "idle"
    /\ home = NoHome
    /\ kind = ""
    /\ cerr = ""
    /\ res = NoResult
    /\ res2 = NoResult
    /\ NoGather
    /\ NoCopy
    /\ NoPool
    /\ NoPin
    /\ NoTar
    /\ clone \in {CloneCall(s, a, c) : s \in CloneSources, a \in BOOLEAN, c \in BOOLEAN}

\* src, ref, subdir, depth, err := processUrl(source)
GitProcess ==
    /\ clone.pc = "call"
    /\ \E r \in {CloneProcessed[clone.source]} :
        IF r.err # ""
        THEN clone' = [clone EXCEPT !.pc = "returned", !.meta = "nil",
                                     !.err = "failed to process URL: " \o r.err]
        ELSE clone' = [clone EXCEPT !.pc = "options", !.src = r.src, !.ref = r.ref,
                                     !.subdir = r.subdir, !.depth = r.depth]
    /\ UNCHANGED <<urlVars, gatherVars, copyVars, poolVars, pinVars, tarVars>>

\* the value of a string of decimal digits
RECURSIVE DecimalValue(_)
DecimalValue(digits) ==
    IF digits = "" THEN 0
    ELSE DecimalValue(Take(digits, Len(digits) - 1)) * 10
         + (CHOOSE d \in 0..9 : Char("0123456789", d + 1) = Char(digits, Len(digits)))

\* strconv.Atoi: the value and "", or 0 and the error
Atoi(str) ==
    Strict(LAMBDA digits :
        IF digits # "" /\ AllIn(digits, Digits)
        THEN [n |-> (IF HasPrefix(str, "-") THEN 0 - 1 ELSE 1) * DecimalValue(digits),
              err |-> ""]
        ELSE [n |-> 0,
              err |-> "strconv.Atoi: parsing \"" \o str \o "\": invalid syntax"],
        IF HasPrefix(str, "+") \/ HasPrefix(str, "-") THEN Drop(str, 1) ELSE str)

\* cloneOpts := &git.CloneOptions{URL: src}, then ReferenceName and Depth;
\* Auth is left unset
GitOptions ==
    /\ clone.pc = "options"
    /\ \E d \in {Atoi(clone.depth)} :
        IF clone.depth # "" /\ d.err # ""
        THEN clone' = [clone EXCEPT !.pc = "returned", !.meta = "nil",
                                     !.err = "failed to parse depth: " \o d.err]
        ELSE clone' = [clone EXCEPT
                          !.pc = "clone",
                          !.ReferenceName =
                              IF clone.ref # "" THEN "refs/heads/" \o clone.ref ELSE "",
                          !.Depth = IF clone.depth # "" THEN d.n ELSE 0]
    /\ UNCHANGED <<urlVars, gatherVars, copyVars, poolVars, pinVars, tarVars>>

\* git.PlainClone(destination, false, cloneOpts), or for a subdirectory
\* cloneRepositoryPath and its PlainCloneContext(ctx, tmpDir, false, cloneOpts)
GitClone ==
    /\ clone.pc = "clone"
    /\ \E attempt \in {[URL |-> clone.src, ReferenceName |-> clone.ReferenceName,
                         Depth |-> clone.Depth, Auth |-> "",
                         into |-> IF clone.subdir = "" THEN "destination" ELSE "tmpDir",
                         authCalls |-> clone.authCalls]} :
        IF clone.cloneFails
        THEN clone' = [clone EXCEPT
                          !.clones = Append(@, attempt), !.pc = "returned", !.meta = "nil",
                          !.err = "error cloning repository: authentication required"]
        ELSE clone' = [clone EXCEPT !.clones = Append(@, attempt), !.pc = "cloned"]
    /\ UNCHANGED <<urlVars, gatherVars, copyVars, poolVars, pinVars, tarVars>>

\* the copy of the subdirectory if there is one, the commits, and
\* return m, nil
GitFinish ==
    /\ clone.pc = "cloned"
    /\ clone' = [clone EXCEPT !.pc = "returned", !.meta = "GitMetadata"]
    /\ UNCHANGED <<urlVars, gatherVars, copyVars, poolVars, pinVars, tarVars>>

CloneNext == GitProcess \/ GitOptions \/ GitClone \/ GitFinish

CloneSpec == CloneInit /\ [][CloneNext]_vars

(***************************************************************************)
(* One call of GitMetadata.GetPinnedURL(u)                                 *)
(***************************************************************************)
PinInit ==
    /\ source = ""
    /\ pc = "idle"
    /\ home = NoHome
    /\ kind = ""
    /\ cerr = ""
    /\ res = NoResult
    /\ res2 = NoResult
    /\ NoGather
    /\ NoCopy
    /\ NoPool
    /\ NoClone
    /\ NoTar
    /\ pin \in {PinCall(f, h, p, d, q, c) :
                    f \in PinForms, h \in PinHosts, p \in PinPaths, d \in PinSubdirs,
                    q \in PinQueries, c \in LatestCommits}

\* s without the prefix, if it has it
TrimPrefix(s, prefix) == IF HasPrefix(s, prefix) THEN Drop(s, Len(prefix)) ELSE s

\* a locator whose query is kept
withoutQueryKept(u) == u

\* the locator without its query, and with it without its ref
withoutQuery(u) == Cut(u, "?")[1]

\* the locator without git:: and without its scheme, git@host:path turned
\* into host/path
hostAndPath(u) ==
    Strict(LAMBDA bare :
        IF HasPrefix(bare, "git@")
        THEN Strict(LAMBDA c : c[1] \o (IF c[3] THEN "/" ELSE "") \o c[2],
                    Cut(Drop(bare, 4), ":"))
        ELSE bare,
        TrimPrefix(TrimPrefix(TrimPrefix(TrimPrefix(u, "git::"), "git://"), "https://"),
                   "http://"))

\* GitMetadata.GetPinnedURL: the pinned locator and "", or "" and the error
GetPinnedURL(u, latestCommit) ==
    IF u = "" THEN [url |-> "", err |-> "empty URL"]
    ELSE IF latestCommit = "" THEN [url |-> "", err |-> "latest commit not set"]
    ELSE [url |-> "git::" \o hostAndPath(withoutQuery(u)) \o "?ref=" \o latestCommit,
          err |-> ""]

\* the call and its return
Pin ==
    /\ pin.pc = "call"
    /\ \E r \in {GetPinnedURL(pin.u, pin.LatestCommit)} :
        pin' = [pin EXCEPT !.pc = "returned", !.url = r.url, !.err = r.err]
    /\ UNCHANGED <<urlVars, gatherVars, copyVars, poolVars, cloneVars, tarVars>>

PinNext == Pin

PinSpec == PinInit /\ [][PinNext]_vars

(***************************************************************************)
(* One call of untar, as TarExpander.Expand makes it                       *)
(***************************************************************************)
UntarInit ==
    /\ source = ""
    /\ pc = "idle"
    /\ home = NoHome
    /\ kind = ""
    /\ cerr = ""
    /\ res = NoResult
    /\ res2 = NoResult
    /\ NoGather
    /\ NoCopy
    /\ NoPool
    /\ NoClone
    /\ NoPin
    /\ tar \in {UntarCall(a, d, l) : a \in Archives, d \in BOOLEAN, l \in FilesLimits}

\* the head of the loop: if filesLimit > 0 { filesCount++; if filesCount >
\* filesLimit { return ... } }
UntarCount ==
    /\ tar.pc = "loop"
    /\ IF tar.filesLimit > 0
       THEN IF tar.filesCount + 1 > tar.filesLimit
            THEN tar' = [tar EXCEPT
                            !.filesCount = @ + 1, !.pc = "returned",
                            !.err = "tar file contains more files than the "
                                    \o ToString(tar.filesCount + 1) \o " allowed: "
                                    \o ToString(tar.filesLimit)]
            ELSE tar' = [tar EXCEPT !.filesCount = @ + 1, !.pc = "next"]
       ELSE tar' = [tar EXCEPT !.pc = "next"]
    /\ UNCHANGED <<urlVars, gatherVars, copyVars, poolVars, cloneVars, pinVars>>

\* header, err := tarReader.Next() and the rest of the body of the loop
UntarNext ==
    /\ tar.pc = "next"
    /\ IF tar.read = Len(tar.archive)
       THEN IF ~tar.finished
            THEN tar' = [tar EXCEPT !.pc = "returned", !.err = "tar file is empty: src"]
            ELSE tar' = [tar EXCEPT !.pc = "returned"]
       ELSE LET header == tar.archive[tar.read + 1]
            IN  IF header = "pax"
                THEN tar' = [tar EXCEPT !.read = @ + 1, !.pc = "loop"]
                ELSE IF header = "dir"
                THEN IF ~tar.dir
                     THEN tar' = [tar EXCEPT
                                     !.read = @ + 1, !.pc = "returned",
                                     !.err = "expected a file (src), got a directory: dst"]
                     ELSE tar' = [tar EXCEPT !.read = @ + 1, !.pc = "loop",
                                              !.written = Append(@, tar.read + 1)]
                ELSE IF ~tar.dir /\ tar.finished
                THEN tar' = [tar EXCEPT
                                !.read = @ + 1, !.pc = "returned",
                                !.err = "tar file contains more than one file: src"]
                ELSE tar' = [tar EXCEPT !.read = @ + 1, !.pc = "loop", !.finished = TRUE,
                                         !.written = Append(@, tar.read + 1)]
    /\ UNCHANGED <<urlVars, gatherVars, copyVars, poolVars, cloneVars, pinVars>>

UntarStep == UntarCount \/ UntarNext

UntarSpec == UntarInit /\ [][UntarStep]_vars

(***************************************************************************)
(* The functions that return errors to a caller, side by side: a call of   *)
(* processUrl, concurrent calls of the dispatcher Gather, or a call of     *)
(* copyDirectory on one of the smaller trees                               *)
(***************************************************************************)
ErrInit == Init \/ GatherInit \/ (CopyInit /\ tree # TreeWide)

ErrNext == Next \/ GatherNext \/ CopyNext

ErrSpec == ErrInit /\ [][ErrNext]_vars

(***************************************************************************)
(* Properties of ClassifyURI                                               *)
(***************************************************************************)
\* C1: an input that begins with git::, file::, http:: or oci:: is classified
\* GitURI, FileURI, HTTPURI or OCIURI respectively, with a nil error, whatever
\* follows the prefix.
C1_PrefixDecidesKind ==
    pc # "start" =>
        /\ HasPrefix(source, "git::") => kind = GitURI /\ cerr = ""
        /\ HasPrefix(source, "file::") => kind = FileURI /\ cerr = ""
        /\ HasPrefix(source, "http::") => kind = HTTPURI /\ cerr = ""
        /\ HasPrefix(source, "oci::") => kind = OCIURI /\ cerr = ""

\* C1: an oci:: locator whose body is an ftp URL has been classified OCIURI
C1_Witness ==
    /\ pc = "classified"
    /\ HasPrefix(source, "oci::ftp://")
    /\ kind = OCIURI
    /\ cerr = ""

\* C2: an input that starts with ./, ../, /, a drive letter and :\, ~/ or
\* file:// is classified GitURI when the tilde-expanded input ends in .git and
\* FileURI otherwise, with a nil error; the Git-URL, HTTP and OCI rules that
\* would match it as well are not consulted.
C2_FileShapeRule ==
    LET drive == /\ Len(source) >= 3
                 /\ Char(source, 1) \in Letters
                 /\ Slice(source, 2, 3) = ":\\"
        shaped == \/ \E p \in {"./", "../", "/", "~/", "file://"} : HasPrefix(source, p)
                  \/ drive
    IN  pc # "start" /\ shaped =>
            /\ cerr = ""
            /\ kind = IF HasSuffix(ExpandTilde(source, home), ".git") THEN GitURI
                      ELSE FileURI

\* C2: a ~/ path that ends in .git only once expanded has been classified
\* GitURI, and a ./ path the Git-URL rule matches has been classified FileURI
C2_Witness ==
    /\ pc = "classified"
    /\ \/ /\ HasPrefix(source, "~/")
          /\ ~HasSuffix(source, ".git")
          /\ home[2] = ""
          /\ kind = GitURI
       \/ /\ HasPrefix(source, "./")
          /\ gitURIPattern(source)
          /\ kind = FileURI

(***************************************************************************)
(* Properties of processUrl                                                *)
(***************************************************************************)
\* C3: for a locator git::https://H/O/R.git?ref=X//S, with X and S non-empty
\* and no // in X, processUrl returns no error, the clone URL
\* https://H/O/R.git without the ref and depth keys, ref X, subdirectory S and
\* an empty depth.
C3_RefWithSubdir ==
    LET c == Cut(Drop(source, 5), "?ref=")
        v == Cut(c[2], "//")
        form == /\ HasPrefix(source, "git::https://")
                /\ c[3]
                /\ IsWords(Drop(c[1], 8), 3)
                /\ HasSuffix(c[1], ".git")
                /\ v[3]
                /\ v[1] # ""
                /\ v[2] # ""
    IN  pc = "processed" /\ form =>
            res = Result(c[1], v[1], v[2], "", "")

C5_IdempotentOnCloneURL ==
    pc = "reprocessed" => res2 = Result(res.src, "", "", "", "")

C7_PrefixStrippedBeforeHTTPS ==
    LET B == Drop(source, 5)
    IN  /\ pc = "processed"
        /\ HasPrefix(source, "git::")
        /\ AllIn(B, WordChars \cup {"/"})
        /\ Contains(B, "/")
        /\ ~Contains(B, "//")
        /\ ~HasPrefix(B, "/")
        /\ ~HasSuffix(B, "/")
        => /\ res.err = ""
           /\ res.src = "https://" \o B \o (IF HasSuffix(B, ".git") THEN "" ELSE ".git")

\* C8: for an scp-style locator git@H:O/R or git@H:O/R.git, processUrl returns
\* no error, the clone URL ssh://git@H/O/R.git and empty ref, subdirectory and
\* depth.
C8_ScpBecomesSSH ==
    LET hp == Cut(Drop(source, 4), ":")
    IN  /\ pc = "processed"
        /\ HasPrefix(source, "git@")
        /\ hp[3]
        /\ IsWord(hp[1])
        /\ IsWords(hp[2], 2)
        => res = Result("ssh://git@" \o hp[1] \o "/" \o hp[2]
                            \o (IF HasSuffix(hp[2], ".git") THEN "" ELSE ".git"),
                        "", "", "", "")

\* C8: an scp-style locator without .git has been processed to an ssh:// URL
C8_Witness ==
    /\ pc = "processed"
    /\ HasPrefix(source, "git@")
    /\ ~HasSuffix(source, ".git")
    /\ HasPrefix(res.src, "ssh://git@")
    /\ HasSuffix(res.src, ".git")

\* C9: when a Git locator carries a // subdirectory both in its path
\* (...//P) and in the value of its ref or depth parameter (?ref=X//Q) and
\* processUrl succeeds, the subdirectory returned is P, the ref is X, and the
\* clone URL's path is the path before the first //.
C9_PathSubdirWins ==
    LET c == Cut(source, "?")
        noPrefix == IF Contains(c[1], "::") THEN Cut(c[1], "::")[2] ELSE c[1]
        noScheme == IF Contains(noPrefix, "://") THEN Cut(noPrefix, "://")[2]
                    ELSE noPrefix
        p == Cut(noScheme, "//")
        isRef == HasPrefix(c[2], "ref=")
        v == Cut(Drop(c[2], IF isRef THEN 4 ELSE 6), "//")
        repo == Cut(p[1], "/")[2]
    IN  /\ pc = "processed"
        /\ kind = GitURI
        /\ res.err = ""
        /\ p[3]
        /\ isRef \/ HasPrefix(c[2], "depth=")
        /\ v[3]
        => /\ res.subdir = p[2]
           /\ isRef => res.ref = v[1]
           /\ ~isRef => res.depth = v[1]
           /\ HasSuffix(res.src, "/" \o repo
                                     \o (IF HasSuffix(repo, ".git") THEN "" ELSE ".git"))

\* C10: among the inputs no prefix decides, every http(s)://host/org/repo of
\* three segments of word characters, dots and hyphens is classified GitURI,
\* and HTTPURI is returned exactly for the other inputs that start with
\* http:// or https://, have a host of two or more labels and parse as a URL
\* with scheme http or https.
C10_GitBeforeHTTP ==
    LET rest == IF HasPrefix(source, "http://") THEN Drop(source, 7)
                ELSE Drop(source, 8)
        web == HasPrefix(source, "http://") \/ HasPrefix(source, "https://")
        labels == RunLen(rest, LabelChars)
        dotted == /\ labels >= 1
                  /\ Slice(rest, labels + 1, labels + 1) = "."
                  /\ RunLen(Drop(rest, labels + 1), LabelChars) >= 1
    IN  /\ pc # "start"
        /\ \A pre \in Prefixes : ~HasPrefix(source, pre)
        => /\ web /\ IsWords(rest, 3) => kind = GitURI /\ cerr = ""
           /\ kind = HTTPURI <=>
                  /\ web
                  /\ ~IsWords(rest, 3)
                  /\ dotted
                  /\ urlParse(source).err = ""
                  /\ urlParse(source).Scheme \in {"http", "https"}

\* C10: an http:// URL of the host/org/repo shape has been classified GitURI
\* although the HTTP rule matches it too
C10_Witness ==
    /\ pc = "classified"
    /\ HasPrefix(source, "http://")
    /\ IsWords(Drop(source, 7), 3)
    /\ httpURIPattern(source)
    /\ kind = GitURI

\* C11: every input of the shape oci://<host><rest> with a non-empty host is
\* classified OCIURI with a nil error.
C11_OciURLIsOCI ==
    /\ pc = "classified"
    /\ HasPrefix(source, "oci://")
    /\ RunLen(Drop(source, 6), WordChars) >= 1
    => kind = OCIURI /\ cerr = ""

\* C12: an input that no rule before the unsupported-scheme check decides and
\* that parses as a URL with a non-empty scheme other than http and https is
\* classified Unknown with the error "unsupported source protocol: <scheme>".
C12_UnsupportedScheme ==
    /\ pc = "classified"
    /\ ~decidedBeforeScheme(source)
    /\ urlParse(source).err = ""
    /\ urlParse(source).Scheme \notin {"", "http", "https"}
    => /\ kind = Unknown
       /\ cerr = "unsupported source protocol: " \o urlParse(source).Scheme

\* C12: an ftp:// URL has been rejected for its scheme
C12_Witness ==
    /\ pc = "classified"
    /\ HasPrefix(source, "ftp://")
    /\ kind = Unknown
    /\ cerr = "unsupported source protocol: ftp"

\* C13: an input that none of the rules decides, the unsupported-scheme rule
\* included, is classified Unknown, with the "HTTP(S) URIs require a scheme"
\* error if it contains a dot and with a nil error if it does not.
C13_DotDecidesError ==
    /\ pc = "classified"
    /\ ~decidedBeforeScheme(source)
    /\ ~(urlParse(source).err = "" /\ urlParse(source).Scheme \notin {"", "http", "https"})
    => /\ kind = Unknown
       /\ cerr # "" <=> Contains(source, ".")
       /\ cerr # "" =>
              cerr = "got " \o source \o ". HTTP(S) URIs require a scheme (http:// or https://)"

\* C13: a bare word without a dot has come out Unknown with a nil error
C13_Witness ==
    /\ pc = "classified"
    /\ ~decidedBeforeScheme(source)
    /\ ~Contains(source, ".")
    /\ AllIn(source, Alnum)
    /\ kind = Unknown
    /\ cerr = ""

C15_RoutesOnceVerbatim ==
    \A c \in Callers :
        LET u == GatherParsed[gsource[c]]
        IN  gpc[c] # "idle" /\ u.err = "" /\ u.Scheme \in DOMAIN protocolHandlers
            => /\ Len(calls[c]) <= 1
               /\ gpc[c] \in {"gathering", "gathered", "returned"} =>
                      /\ Len(calls[c]) = 1
                      /\ calls[c][1].gatherer = protocolHandlers[u.Scheme]
               /\ gpc[c] = "returned" => gret[c] = gout[c] /\ gout[c] \in GathererOutcomes

\* C15: a call has returned the error its gatherer returned
C15_Witness ==
    \E c \in Callers :
        /\ gpc[c] = "returned"
        /\ Len(calls[c]) = 1
        /\ gout[c].err # ""
        /\ gret[c] = gout[c]

\* C16: in every state the table is the one of start-up, and it has an entry
\* for each of file, http, git and oci.
C16_TableFixedFourSchemes ==
    /\ protocolHandlers = StartHandlers
    /\ {"file", "http", "git", "oci"} \subseteq DOMAIN protocolHandlers

(***************************************************************************)
(* Properties of copyDirectory                                             *)
(***************************************************************************)
\* C17: if no operation on an entry fails and the context is never
\* cancelled, copyDirectory returns a nil error, and when it returns every
\* file of the tree has been copied to its destination path, once.
C17_AllCopiedOnce ==
    /\ caller = "returned"
    /\ walker # "idle"
    /\ \A i \in DOMAIN tree : fault[i] = ""
    /\ \A i \in Files : copyError(i) = ""
    /\ ~ctxDone
    => /\ ret.err = ""
       /\ \A i \in Files : saved[i] = <<destPath(i)>>

\* C18: once a file-copy goroutine has failed, a copyDirectory that has
\* returned has returned nil metadata and an error that begins with "failed
\* to copy directory", whatever the other goroutines did and whenever.
C18_AnyFailureIsReported ==
    /\ caller = "returned"
    /\ \E i \in Files : worker[i] \in {"defer", "done"} /\ copyError(i) # ""
    => /\ ret.meta = "nil"
       /\ HasPrefix(ret.err, "failed to copy directory: ")
       /\ Len(ret.err) > Len("failed to copy directory: ")

\* C18: copyDirectory has returned the error of one goroutine, while
\* another file was copied and a third goroutine is still at work
C18_Witness ==
    /\ caller = "returned"
    /\ HasPrefix(ret.err, "failed to copy directory: open ")
    /\ \E i, j, k \in Files :
        /\ worker[i] = "done" /\ copyError(i) # ""
        /\ worker[j] = "done" /\ saved[j] # <<>>
        /\ worker[k] = "run"

\* C19: when the copy of a file starts, the destination directory that
\* corresponds to the file's source directory has been made.
C19_DirBeforeFiles ==
    [][\A i \in DOMAIN worker :
          worker[i] = "none" /\ worker'[i] = "run" => DirOf[destPath(i)] \in made]_vars

\* C19: the file two directories down is being copied, both directories
\* made, while the file of the root, started first, is not yet copied
C19_Witness ==
    /\ tree = TreeNested
    /\ worker[6] = "run"
    /\ worker[2] = "run"
    /\ worker[4] = "done"
    /\ {"/dst", "/dst/d", "/dst/d/e"} \subseteq made

\* C20: at most 10 file copies are in progress, that is, at most 10
\* goroutines hold a slot of the semaphore.
C20_AtMostTenInProgress ==
    /\ Cardinality(InProgress) <= 10
    /\ semaphore = Cardinality(InProgress)

\* C20: ten copies are in progress and the walk waits for a slot with the
\* eleventh file
C20_Witness ==
    /\ Cardinality(InProgress) = 10
    /\ walker = "acquire"
    /\ walked < Len(tree)

\* the number of entries whose cancellation check had already been made when
\* the context was cancelled
checkedAtCancel ==
    cancelAt.walked + (IF cancelAt.walker = "acquire" THEN 1 ELSE 0)

\* C21 as stated: a cancellation at any moment before the walk has completed
\* makes copyDirectory return a non-nil error.  The code does not do this: a
\* cancellation after the check of the last entry is not seen
C21_CancelBeforeWalkEndsFails ==
    (caller = "returned" /\ cancelAt.walker \in {"idle", "walk", "acquire"})
        => ret.err # ""

\* C21 (amended): when the context is cancelled before the walk function has
\* made its check for the last entry of the tree, copyDirectory returns a
\* non-nil error; and whenever the walk function found the context cancelled
\* the error is returned, whatever the workers did
C21_CancelBeforeLastCheckFails ==
    /\ (/\ caller = "returned"
         /\ cancelAt.walker \in {"idle", "walk", "acquire"}
         /\ checkedAtCancel < Len(tree))
            => ret.err # ""
    /\ (caller = "returned" /\ walkErr = "context canceled") => ret.err # ""

\* the context was cancelled in the middle of the walk, after some entries
\* were copied, and copyDirectory returned the cancellation as an error with
\* a partial destination tree
C21_Witness ==
    /\ caller = "returned"
    /\ cancelAt.walker = "walk"
    /\ 1 < cancelAt.walked
    /\ cancelAt.walked < Len(tree)
    /\ ret.err = wrapped("context canceled")
    /\ \E i \in Files : saved[i] # <<>>
    /\ \E i \in Files : worker[i] = "none"

\* C22: copyDirectory returns, with success or with an error, only after
\* every file-copy worker it started has finished: once it has returned no
\* worker is running and none is started any more
C22_ReturnsAfterFullDrain ==
    caller = "returned"
        => /\ InProgress = {}
           /\ walker \in {"idle", "wait", "closed", "exit"}

\* C26: errChan is closed only after the walk has ended and every started
\* worker has finished; nothing is sent on errChan once it is closed; no
\* worker is added to the wait group once the walker waits on it
C26_ClosedAfterDrain ==
    [][/\ errChanClosed' =>
            /\ walker' \in {"closed", "exit"}
            /\ \A i \in DOMAIN worker' : worker'[i] \in {"none", "done"}
            /\ wg' = 0
       /\ errChanClosed => Len(errChan') <= Len(errChan)
       /\ walker \in {"wait", "closed", "exit"} =>
            /\ wg' <= wg
            /\ \A i \in DOMAIN worker : worker[i] = "none" => worker'[i] = "none"
      ]_vars

\* errChan has been closed after one worker copied its file, another sent
\* its error, and the caller had already taken an error and returned
C26_Witness ==
    /\ errChanClosed
    /\ \E i \in Files : worker[i] = "done" /\ copyError(i) # ""
    /\ \E i \in Files : saved[i] # <<>>
    /\ errChan # <<>>
    /\ caller = "returned"

\* the copy of file i meets no failing operation
Sound(i) == fault[i] = "" /\ SaveParsed[destPath(i)].err = ""

\* C27: in the step in which the walk finds the context cancelled, and from
\* then on, the walk makes no directory and starts no worker; a copy that was
\* started is not interrupted by the cancellation: if none of its operations
\* fails it ends with its file written
C27_CancelStopsStartsOnly ==
    [][/\ (walkErr' = "context canceled") =>
            /\ walked' = walked
            /\ \A i \in DOMAIN worker : worker[i] = "none" => worker'[i] = "none"
            /\ made' \subseteq
                   made \cup UNION {mkdirAll({}, DirOf[SaveParsed[destPath(i)].Path]) :
                                        i \in {j \in Files : worker[j] = "run"}}
       /\ \A i \in Files :
            (worker[i] = "run" /\ worker'[i] # "run" /\ Sound(i)) =>
                (worker'[i] = "done" /\ saved'[i] # <<>>)
      ]_vars

\* the walk has found the context cancelled while a copy was in progress
\* and entries were still to come, and that copy has since written its file
C27_Witness ==
    /\ walkErr = "context canceled"
    /\ \E i \in Files : worker[i] = "none"
    /\ \E i \in Files : worker[i] = "done" /\ saved[i] # <<>> /\ cancelAt.walked >= i
    /\ \E i \in Files : worker[i] = "run"

\* a goroutine waits to send on errChan, whose buffer is full, after the
\* only receiver has returned
sendNeverTaken ==
    /\ pool.caller = "returned"
    /\ pool.failing
    /\ pool.running > 0
    /\ pool.errChan = ErrChanCap

\* the walker waits for a slot of the semaphore or on the wait group, and
\* every goroutine it waits for waits on errChan for ever
walkerNeverWoken ==
    /\ sendNeverTaken
    /\ pool.deferring = 0
    /\ \/ pool.walker = "wait" /\ pool.wg > 0
       \/ pool.walker = "walk" /\ pool.walked < pool.files
            /\ pool.semaphore = SemaphoreCap

\* C28: no goroutine of copyDirectory stays blocked for ever on errChan, on
\* the semaphore or on the wait group, however many files there are and
\* however many copies fail: no state is reached in which a worker waits to
\* send an error nobody will receive, or the walker waits for such workers
C28_NoGoroutineBlockedForever ==
    ~sendNeverTaken /\ ~walkerNeverWoken

\* C29: when the locator holds "::", the string processUrl hands to the
\* git-URL parser is everything behind the first "::" of the locator, however
\* many "::" follow
C29_AllAfterFirstPrefix ==
    (/\ pc = "processed"
     /\ cerr = ""
     /\ Contains(source, "::"))
        => urlToParse(kind, source) = Cut(source, "::")[2]

\* C23: every clone GitGatherer.Gather attempts of a URL whose scheme is ssh
\* comes after exactly one call of the authenticator's NewSSHAgentAuth and
\* carries the credential it returned; when that call fails an error is
\* returned and no clone is attempted
C23_SSHCloneCarriesAgentAuth ==
    /\ \A k \in DOMAIN clone.clones :
            HasPrefix(clone.clones[k].URL, "ssh://")
                => /\ clone.clones[k].authCalls = 1
                   /\ clone.clones[k].Auth # ""
                   /\ ~clone.authFails
    /\ (/\ clone.pc = "returned"
         /\ HasPrefix(clone.src, "ssh://")
         /\ clone.authFails)
            => clone.err # "" /\ clone.clones = <<>>

\* C25: GetPinnedURL on a non-empty git locator fails with exactly
\* "latest commit not set" when LatestCommit is empty, and otherwise returns
\* git::<host>/<path>[//<subdir>]?ref=<LatestCommit>, whatever form the
\* locator had and without the ref it carried
C25_PinnedToLatestCommit ==
    (pin.pc = "returned" /\ pin.u # "")
        => IF pin.LatestCommit = ""
           THEN pin.err = "latest commit not set" /\ pin.url = ""
           ELSE /\ pin.err = ""
                /\ pin.url = "git::" \o pin.host \o "/" \o pin.path \o pin.subdir
                                     \o "?ref=" \o pin.LatestCommit
                /\ ~Contains(pin.url, "abc1234")

\* a locator of the git@host:path form with a subdirectory and a ref has
\* been pinned to the latest commit
C25_Witness ==
    /\ pin.pc = "returned"
    /\ pin.form = <<"git::git@", ":">>
    /\ pin.subdir # ""
    /\ pin.query = "?ref=abc1234"
    /\ pin.LatestCommit = "def456"
    /\ pin.url = "git::example.com/org/repo.git//path/to/file?ref=def456"

\* C30: with a files limit L > 0, untar returns the error "tar file contains
\* more files than ..." only for an archive of more than L entries
C30_LimitRejectsOnlyLarger ==
    (/\ tar.pc = "returned"
     /\ tar.filesLimit > 0
     /\ HasPrefix(tar.err, "tar file contains more files than"))
        => Len(tar.archive) > tar.filesLimit

\* the messages with which processUrl names the stage that failed
ProcessStages ==
    {"failed to classify URI: ", "failed to parse URL: ", "failed to reparse URL: "}

\* the messages with which copyDirectory names the stage that failed
CopyStages ==
    {"failed to parse source URI: ", "failed to parse destination URI: ",
     "failed to copy directory: "}

\* the messages of the errors the dispatcher makes itself or is handed by a
\* gatherer
GatherStages == {"unsupported source protocol: ", "failed to "}

\* err is an error put behind one of the messages
staged(err, stages) ==
    \E stage \in stages : HasPrefix(err, stage)

====
